---- MODULE Spec2Model ----
(***************************************************************************)
(* RockdexDB (src/rockdex-db.js, the class exported last by the file: the  *)
(* "performance" RockdexDB of lines 2532-4416, with its BTreeIndex).       *)
(* Tables, schemas, triggers, secondary indexes, the query builder and the *)
(* snapshot transaction, as a state machine.                               *)
(*                                                                         *)
(* JavaScript values are records [t, n, s] of one shape: t is the typeof   *)
(* tag ("undefined", "null", "number", "string", "boolean"), n the number  *)
(* (or 0/1 of a boolean), s the string as a sequence of characters.  A     *)
(* record of a table is a function from Fields to values; a field that is  *)
(* absent holds Undef.  Key order of objects is not modelled.              *)
(***************************************************************************)
EXTENDS Integers, Sequences, FiniteSets, TLC

\* ------------------------------------------------------------ bounds
MaxRows == 3
MaxConds == 2
MaxGen == 2
MaxClock == 1
MaxBulk == 2
MaxTriggers == 2
MaxIndexed == 3
MaxCalls == 2
TreeDegree == 2
MaxKey == 5
MaxInserted == 5
BatchRecords == 1

\* ------------------------------------------------------------ JS values
Undef == [t |-> "undefined", n |-> 0, s |-> <<>>]
Null == [t |-> "null", n |-> 0, s |-> <<>>]
Num(k) == [t |-> "number", n |-> k, s |-> <<>>]
Str(cs) == [t |-> "string", n |-> 0, s |-> cs]
Bool(b) == [t |-> "boolean", n |-> IF b THEN 1 ELSE 0, s |-> <<>>]

\* typeof v (typeof null is "object")
TypeOf(v) == IF v.t = "null" THEN "object" ELSE v.t

\* !!v
Truthy(v) ==
    CASE v.t = "number" -> v.n # 0
      [] v.t = "string" -> v.s # <<>>
      [] v.t = "boolean" -> v.n = 1
      [] OTHER -> FALSE

\* The characters the model's strings are made of, in code-unit order.
CharOrder ==
    <<"%", "-", ".", "0", "1", "2", "3", "4", "5", "6", "7", "8", "9",
      "A", "B", "C", "E", "I", "M", "N", "O", "R", "T", "U", "_",
      "a", "b", "d", "e", "f", "g", "i", "l", "n", "r", "s", "t", "u">>

CharCode(c) == CHOOSE i \in 1..Len(CharOrder) : CharOrder[i] = c

Digits == <<"0", "1", "2", "3", "4", "5", "6", "7", "8", "9">>

IsDigit(c) == \E i \in 1..10 : Digits[i] = c

DigitVal(c) == (CHOOSE i \in 1..10 : Digits[i] = c) - 1

RECURSIVE NatToChars(_)
NatToChars(k) ==
    IF k < 10 THEN <<Digits[k + 1]>>
    ELSE NatToChars(k \div 10) \o <<Digits[(k % 10) + 1]>>

\* String(v)
ToStr(v) ==
    CASE v.t = "string" -> v.s
      [] v.t = "number" ->
            IF v.n < 0 THEN <<"-">> \o NatToChars(0 - v.n) ELSE NatToChars(v.n)
      [] v.t = "boolean" ->
            IF v.n = 1 THEN <<"t", "r", "u", "e">> ELSE <<"f", "a", "l", "s", "e">>
      [] v.t = "null" -> <<"n", "u", "l", "l">>
      [] OTHER -> <<"u", "n", "d", "e", "f", "i", "n", "e", "d">>

RECURSIVE CharsToNat(_, _)
CharsToNat(cs, acc) ==
    IF cs = <<>> THEN acc
    ELSE CharsToNat(Tail(cs), acc * 10 + DigitVal(Head(cs)))

\* Number(v): [nan, n]; a string is a number when it is empty or all digits.
ToNumber(v) ==
    CASE v.t = "number" -> [nan |-> FALSE, n |-> v.n]
      [] v.t = "boolean" -> [nan |-> FALSE, n |-> v.n]
      [] v.t = "null" -> [nan |-> FALSE, n |-> 0]
      [] v.t = "string" ->
            IF \A i \in 1..Len(v.s) : IsDigit(v.s[i])
            THEN [nan |-> FALSE, n |-> CharsToNat(v.s, 0)]
            ELSE [nan |-> TRUE, n |-> 0]
      [] OTHER -> [nan |-> TRUE, n |-> 0]

RECURSIVE CharsLess(_, _)
CharsLess(a, b) ==
    IF b = <<>> THEN FALSE
    ELSE IF a = <<>> THEN TRUE
    ELSE IF Head(a) = Head(b) THEN CharsLess(Tail(a), Tail(b))
    ELSE CharCode(Head(a)) < CharCode(Head(b))

\* a < b (the abstract relational comparison; false when either side is NaN)
JsLt(a, b) ==
    IF a.t = "string" /\ b.t = "string" THEN CharsLess(a.s, b.s)
    ELSE LET x == ToNumber(a)
             y == ToNumber(b)
         IN  ~x.nan /\ ~y.nan /\ x.n < y.n

JsGt(a, b) == JsLt(b, a)

\* a <= b and a >= b: true on equality of the compared primitives
JsLe(a, b) ==
    IF a.t = "string" /\ b.t = "string" THEN ~CharsLess(b.s, a.s)
    ELSE LET x == ToNumber(a)
             y == ToNumber(b)
         IN  ~x.nan /\ ~y.nan /\ x.n <= y.n

JsGe(a, b) == JsLe(b, a)

\* haystack.includes(needle)
Includes(hay, needle) ==
    \E i \in 0..(Len(hay) - Len(needle)) :
        \A j \in 1..Len(needle) : hay[i + j] = needle[j]

\* pattern.replace(/%/g, '')
RECURSIVE StripPercent(_)
StripPercent(cs) ==
    IF cs = <<>> THEN <<>>
    ELSE IF Head(cs) = "%" THEN StripPercent(Tail(cs))
    ELSE <<Head(cs)>> \o StripPercent(Tail(cs))

\* c.toLowerCase() for the characters of CharOrder
LowerChar(c) ==
    CASE c = "A" -> "a" [] c = "B" -> "b" [] c = "C" -> "c" [] c = "E" -> "e"
      [] c = "I" -> "i" [] c = "M" -> "m" [] c = "N" -> "n" [] c = "O" -> "o"
      [] c = "R" -> "r" [] c = "T" -> "t" [] c = "U" -> "u" [] OTHER -> c

ToLower(cs) == [i \in 1..Len(cs) |-> LowerChar(cs[i])]

\* ------------------------------------------------------------ records
Fields == {"id", "price", "name", "deleted_at", "created_at", "updated_at", "_rowIndex"}

EmptyRec == [f \in Fields |-> Undef]

\* { ...a, ...b }
Spread(a, b) == [f \in Fields |-> IF b[f] # Undef THEN b[f] ELSE a[f]]

\* new Date().toISOString() at clock reading k
Iso(k) == Str(<<"T">> \o NatToChars(k))

\* RockdexDB.AUTO_INCREMENT
AUTO_INCREMENT ==
    Str(<<"A", "U", "T", "O", "_", "I", "N", "C", "R", "E", "M", "E", "N", "T">>)

\* _generateSecureId(): `${timestamp}-${random}`.substring(0, 16); the k-th
\* generated id, taken to be distinct from every earlier one.
GeneratedId(k) == Str(<<"g", "-">> \o NatToChars(k))

\* ------------------------------------------------------------ schema validation
\* A schema is the sequence of its [field, rules] entries in declaration
\* order; an absent rule is FALSE (required), "" (type, pattern) or Undef.
NoRules ==
    [required |-> FALSE, type |-> "", min |-> Undef, max |-> Undef,
     length |-> Undef, pattern |-> "", indexed |-> TRUE]

\* rules.pattern.test(string) for the patterns of the model
PatternTest(pattern, cs) ==
    CASE pattern = "^[0-9]+$" -> cs # <<>> /\ \A i \in 1..Len(cs) : IsDigit(cs[i])
      [] pattern = "^a" -> cs # <<>> /\ cs[1] = "a"
      [] OTHER -> TRUE

NoError == [field |-> "", rule |-> ""]

\* The checks of one schema entry, in the order of the code.
FieldError(v, field, rules) ==
    IF rules.required /\ (v = Undef \/ v = Null)
    THEN [field |-> field, rule |-> "required"]
    ELSE IF rules.type # "" /\ v # Undef /\ TypeOf(v) # rules.type
    THEN [field |-> field, rule |-> "type"]
    ELSE IF Truthy(rules.min) /\ JsLt(v, rules.min)
    THEN [field |-> field, rule |-> "min"]
    ELSE IF Truthy(rules.max) /\ JsGt(v, rules.max)
    THEN [field |-> field, rule |-> "max"]
    ELSE IF Truthy(rules.length) /\ Num(Len(ToStr(v))) # rules.length
    THEN [field |-> field, rule |-> "length"]
    ELSE IF rules.pattern # "" /\ ~PatternTest(rules.pattern, ToStr(v))
    THEN [field |-> field, rule |-> "pattern"]
    ELSE NoError

\* _validateRecord(record, schema): the first error thrown, or NoError
RECURSIVE _validateRecord(_, _)
_validateRecord(record, schema) ==
    IF schema = <<>> THEN NoError
    ELSE LET e == FieldError(record[Head(schema).field], Head(schema).field,
                             Head(schema).rules)
         IN  IF e # NoError THEN e ELSE _validateRecord(record, Tail(schema))

\* _validateSchema(data, schema): the first error over the rows, or NoError
RECURSIVE _validateSchema(_, _)
_validateSchema(data, schema) ==
    IF data = <<>> THEN NoError
    ELSE LET e == _validateRecord(Head(data), schema)
         IN  IF e # NoError THEN e ELSE _validateSchema(Tail(data), schema)

\* ------------------------------------------------------------ BTreeIndex
\* new BTreeIndex(): degree = 50
degree == 50

\* 1 / 0.0001: range bounds are compared in ten-thousandths
Scale == 10000

\* A node is [keys, values, children, isLeaf]; a tree is [root, size] with
\* root the empty sequence (null) or the one-element sequence of its node.
EmptyTree == [root |-> <<>>, size |-> 0]

\* seq.splice(i, 0, x), i counted from 0
SpliceIn(seq, i, x) == SubSeq(seq, 1, i) \o <<x>> \o SubSeq(seq, i + 1, Len(seq))

\* The binary search of _searchNode over keys[left..right] (counted from 0):
\* the position of the key if found, else the final value of left.
RECURSIVE BinSearch(_, _, _, _)
BinSearch(keys, key, left, right) ==
    IF left > right THEN [found |-> FALSE, at |-> left]
    ELSE LET mid == (left + right) \div 2
         IN  IF keys[mid + 1] = key THEN [found |-> TRUE, at |-> mid]
             ELSE IF JsLt(keys[mid + 1], key) THEN BinSearch(keys, key, mid + 1, right)
             ELSE BinSearch(keys, key, left, mid - 1)

RECURSIVE _searchNode(_, _)
_searchNode(node, key) ==
    LET r == BinSearch(node.keys, key, 0, Len(node.keys) - 1)
    IN  IF r.found THEN node.values[r.at + 1]
        ELSE IF ~node.isLeaf /\ r.at + 1 <= Len(node.children)
        THEN _searchNode(node.children[r.at + 1], key)
        ELSE <<>>

\* BTreeIndex.search(key)
BTSearch(tree, key) ==
    IF tree.root = <<>> THEN <<>> ELSE _searchNode(tree.root[1], key)

\* A range bound: a number in ten-thousandths, a string, NaN or an infinity.
NumBound(k) == [kind |-> "num", n |-> k, s |-> <<>>]
StrBound(cs) == [kind |-> "str", n |-> 0, s |-> cs]
NaNBound == [kind |-> "nan", n |-> 0, s |-> <<>>]
PlusInf == [kind |-> "pinf", n |-> 0, s |-> <<>>]
MinusInf == [kind |-> "ninf", n |-> 0, s |-> <<>>]

\* Number(string) in ten-thousandths, for digit strings and for the strings
\* "<digits>.<four digits>" that value + 0.0001 makes of a digit string.
StrScaled(cs) ==
    LET dots == {i \in 1..Len(cs) : cs[i] = "."}
    IN  IF dots = {} /\ \A i \in 1..Len(cs) : IsDigit(cs[i])
        THEN NumBound(CharsToNat(cs, 0) * Scale)
        ELSE IF Cardinality(dots) = 1
        THEN LET p == CHOOSE i \in dots : TRUE
             IN  IF p > 1 /\ Len(cs) - p = 4
                    /\ \A i \in (1..Len(cs)) \ {p} : IsDigit(cs[i])
                 THEN NumBound(CharsToNat(SubSeq(cs, 1, p - 1), 0) * Scale
                               + CharsToNat(SubSeq(cs, p + 1, Len(cs)), 0))
                 ELSE NaNBound
        ELSE NaNBound

\* The value as a comparison operand
ValBound(v) ==
    IF v.t = "string" THEN StrBound(v.s)
    ELSE LET x == ToNumber(v)
         IN  IF x.nan THEN NaNBound ELSE NumBound(x.n * Scale)

\* value + 0.0001 (string concatenation when value is a string)
PlusEps(v) ==
    IF v.t = "string" THEN StrBound(v.s \o <<"0", ".", "0", "0", "0", "1">>)
    ELSE LET x == ToNumber(v)
         IN  IF x.nan THEN NaNBound ELSE NumBound(x.n * Scale + 1)

\* value - 0.0001
MinusEps(v) ==
    LET x == ToNumber(v)
    IN  IF x.nan THEN NaNBound ELSE NumBound(x.n * Scale - 1)

\* The bound as a number, for a comparison with a non-string key
BoundNumber(b) == IF b.kind = "str" THEN StrScaled(b.s) ELSE b

\* key <= bound
KeyLe(key, b) ==
    IF key.t = "string" /\ b.kind = "str" THEN ~CharsLess(b.s, key.s)
    ELSE LET kn == IF key.t = "string" THEN StrScaled(key.s) ELSE ValBound(key)
             bn == BoundNumber(b)
         IN  /\ kn.kind = "num"
             /\ \/ bn.kind = "pinf"
                \/ bn.kind = "num" /\ kn.n <= bn.n

\* key >= bound
KeyGe(key, b) ==
    IF key.t = "string" /\ b.kind = "str" THEN ~CharsLess(key.s, b.s)
    ELSE LET kn == IF key.t = "string" THEN StrScaled(key.s) ELSE ValBound(key)
             bn == BoundNumber(b)
         IN  /\ kn.kind = "num"
             /\ \/ bn.kind = "ninf"
                \/ bn.kind = "num" /\ kn.n >= bn.n

\* _searchRange from key i of the node on: the values of each key in range,
\* then the subtree children[i] (the last child is never visited).
RECURSIVE RangeFrom(_, _, _, _)
RangeFrom(node, i, minKey, maxKey) ==
    IF i > Len(node.keys) THEN <<>>
    ELSE (IF KeyGe(node.keys[i], minKey) /\ KeyLe(node.keys[i], maxKey)
          THEN node.values[i] ELSE <<>>)
         \o (IF ~node.isLeaf /\ i <= Len(node.children)
             THEN RangeFrom(node.children[i], 1, minKey, maxKey) ELSE <<>>)
         \o RangeFrom(node, i + 1, minKey, maxKey)

\* BTreeIndex.searchRange(minKey, maxKey)
BTSearchRange(tree, minKey, maxKey) ==
    IF tree.root = <<>> THEN <<>> ELSE RangeFrom(tree.root[1], 1, minKey, maxKey)

\* The first position (from 0) whose key is not less than key
RECURSIVE InsertIndex(_, _, _)
InsertIndex(keys, key, i) ==
    IF i < Len(keys) /\ JsGt(key, keys[i + 1]) THEN InsertIndex(keys, key, i + 1)
    ELSE i

NoSplit(node) == [node |-> node, split |-> FALSE, median |-> Undef, right |-> <<>>]

_splitLeaf(node) ==
    LET midIndex == Len(node.keys) \div 2
    IN  [node |-> [node EXCEPT !.keys = SubSeq(node.keys, 1, midIndex),
                               !.values = SubSeq(node.values, 1, midIndex)],
         split |-> TRUE,
         median |-> node.keys[midIndex + 1],
         right |-> <<[keys |-> SubSeq(node.keys, midIndex + 1, Len(node.keys)),
                      values |-> SubSeq(node.values, midIndex + 1, Len(node.values)),
                      children |-> <<>>,
                      isLeaf |-> TRUE]>>]

_insertLeaf(node, key, value, deg) ==
    LET insertIndex == InsertIndex(node.keys, key, 0)
    IN  IF insertIndex < Len(node.keys) /\ node.keys[insertIndex + 1] = key
        THEN NoSplit([node EXCEPT !.values[insertIndex + 1] = Append(@, value)])
        ELSE LET grown == [node EXCEPT
                              !.keys = SpliceIn(@, insertIndex, key),
                              !.values = SpliceIn(@, insertIndex, <<value>>)]
             IN  IF Len(grown.keys) > deg THEN _splitLeaf(grown) ELSE NoSplit(grown)

_insertInternalNode(node, key, rightChild, childIndex) ==
    [node EXCEPT !.keys = SpliceIn(@, childIndex, key),
                 !.values = SpliceIn(@, childIndex, <<>>),
                 !.children = SpliceIn(@, childIndex + 1, rightChild)]

RECURSIVE _insertNode(_, _, _, _)
_insertNode(node, key, value, deg) ==
    IF node.isLeaf THEN _insertLeaf(node, key, value, deg)
    ELSE LET childIndex == InsertIndex(node.keys, key, 0)
             result == _insertNode(node.children[childIndex + 1], key, value, deg)
             withChild == [node EXCEPT !.children[childIndex + 1] = result.node]
         IN  IF result.split
             THEN NoSplit(_insertInternalNode(withChild, result.median,
                                              result.right[1], childIndex))
             ELSE NoSplit(withChild)

\* BTreeIndex.insert(key, value) on a tree of degree deg
BTInsert(tree, key, value, deg) ==
    IF tree.root = <<>>
    THEN [root |-> <<[keys |-> <<key>>, values |-> <<<<value>>>>,
                      children |-> <<>>, isLeaf |-> TRUE]>>,
          size |-> tree.size + 1]
    ELSE LET result == _insertNode(tree.root[1], key, value, deg)
         IN  [root |-> IF result.split
                       THEN <<[keys |-> <<result.median>>, values |-> <<<<>>>>,
                               children |-> <<result.node, result.right[1]>>,
                               isLeaf |-> FALSE]>>
                       ELSE <<result.node>>,
              size |-> tree.size + 1]

\* a.key - b.key > 0 (NaN, as for a non-numeric key, orders nothing)
KeyAfter(a, b) ==
    LET x == ToNumber(a.key)
        y == ToNumber(b.key)
    IN  ~x.nan /\ ~y.nan /\ x.n > y.n

\* pairs.sort((a, b) => a.key - b.key): stable
RECURSIVE SortInsert(_, _)
SortInsert(sorted, x) ==
    IF sorted # <<>> /\ KeyAfter(sorted[Len(sorted)], x)
    THEN Append(SortInsert(SubSeq(sorted, 1, Len(sorted) - 1), x), sorted[Len(sorted)])
    ELSE Append(sorted, x)

RECURSIVE SortPairs(_)
SortPairs(pairs) ==
    IF pairs = <<>> THEN <<>>
    ELSE SortInsert(SortPairs(SubSeq(pairs, 1, Len(pairs) - 1)), pairs[Len(pairs)])

RECURSIVE InsertAll(_, _, _)
InsertAll(tree, pairs, deg) ==
    IF pairs = <<>> THEN tree
    ELSE InsertAll(BTInsert(tree, Head(pairs).key, Head(pairs).value, deg), Tail(pairs), deg)

\* BTreeIndex.bulkInsert(keyValuePairs)
BTBulkInsert(tree, pairs, deg) == InsertAll(tree, SortPairs(pairs), deg)

\* ------------------------------------------------------------ state
TableNames == {"t"}

VARIABLES
    _tables,             \* table name -> sequence of records
    _schemas,            \* table name -> schema
    _triggers,           \* table name -> sequence of [name, fn], in registration order
    _indexes,            \* table name -> field -> BTreeIndex
    _whereConditions,    \* sequence of [field, operator, value, values, logic]
    _orderBy,            \* NoOrder or [column, direction]
    _limit,              \* Null or a number
    _offset,
    _searchConditions,   \* sequence of [column, term]
    _softDelete,
    _timestamps,
    _performanceEnabled,
    _autoIndex,
    _lastInsertId,
    backup,              \* the snapshot a running transaction() holds
    now,                 \* the clock new Date() reads
    generated,           \* how many ids _generateSecureId has produced
    ret,                 \* the last call: what it was and how it ended
    pending,             \* the bulkInsert call that is suspended between two batches
    treeIndex,           \* a BTreeIndex of its own, outside any database
    inserted,            \* the [key, value] pairs given to treeIndex.insert, in order
    _writeQueue,         \* the write queue of the storage class: operations not yet started
    _isWriting,
    _lastError,          \* Null, or the operation whose error was caught last
    operations,          \* the operations passed to _queueWrite, in call order
    startOrder           \* the operations in the order they were started

config == <<_softDelete, _timestamps, _performanceEnabled, _autoIndex>>
builder == <<_whereConditions, _orderBy, _limit, _offset, _searchConditions>>
store == <<_tables, _schemas, _triggers, _indexes, _lastInsertId>>
btree == <<treeIndex, inserted>>
writer == <<_writeQueue, _isWriting, _lastError, operations, startOrder>>
vars == <<store, builder, config, backup, now, generated, ret, pending, btree, writer>>

\* map.set(k, v) and map.delete(k) on a function
MapSet(m, k, v) == [x \in (DOMAIN m) \cup {k} |-> IF x = k THEN v ELSE m[x]]
MapDel(m, k) == [x \in (DOMAIN m) \ {k} |-> m[x]]
EmptyMap == [x \in {} |-> 0]

NoOrder == [column |-> "", direction |-> ""]

\* ------------------------------------------------------------ triggers
Operations == {"beforeInsert", "afterInsert", "update", "delete"}

\* A trigger callback of the model: on an operation in `on`, for a record
\* whose price is `price` (any record when price is Undef), it throws when
\* `throws` and returns `returns` otherwise; on any other call it returns
\* undefined.  When `queries`, it first runs a terminal query (count) on the
\* database.
TriggerOutcome(fn, operation, oldRec, newRec) ==
    LET r == IF newRec # Null THEN newRec ELSE oldRec
    IN  IF operation \in fn.on /\ (fn.price = Undef \/ r["price"] = fn.price)
        THEN [thrown |-> fn.throws, value |-> IF fn.throws THEN Undef ELSE fn.returns]
        ELSE [thrown |-> FALSE, value |-> Undef]

\* _trigger in which a callback that throws counts as a veto
_triggerThrowVetoes(tableName, operation, oldRec, newRec) ==
    IF tableName \notin DOMAIN _triggers THEN TRUE
    ELSE \A i \in 1..Len(_triggers[tableName]) :
            LET outcome == TriggerOutcome(_triggers[tableName][i].fn, operation, oldRec, newRec)
            IN  ~outcome.thrown /\ outcome.value # Bool(FALSE)

\* _trigger in which any falsy return value is a veto
_triggerFalsyVetoes(tableName, operation, oldRec, newRec) ==
    IF tableName \notin DOMAIN _triggers THEN TRUE
    ELSE \A i \in 1..Len(_triggers[tableName]) :
            LET outcome == TriggerOutcome(_triggers[tableName][i].fn, operation, oldRec, newRec)
            IN  outcome.thrown \/ Truthy(outcome.value)

\* _trigger(tableName, operation, OLD, NEW): shouldCommit (OLD, NEW: a record
\* or null); every registered callback is called, `=== false` is the veto, an
\* exception is caught and logged
_trigger(tableName, operation, oldRec, newRec) ==
    IF tableName \notin DOMAIN _triggers THEN TRUE
    ELSE \A i \in 1..Len(_triggers[tableName]) :
            LET outcome == TriggerOutcome(_triggers[tableName][i].fn, operation, oldRec, newRec)
            IN  outcome.thrown \/ outcome.value # Bool(FALSE)

\* Some callback _trigger calls for this record runs a terminal query on the
\* database: count(tableName), hence _resetConditions, inside the call
TriggerQueries(tableName, operation, oldRec, newRec) ==
    /\ tableName \in DOMAIN _triggers
    /\ \E i \in 1..Len(_triggers[tableName]) :
          LET fn == _triggers[tableName][i].fn
              r == IF newRec # Null THEN newRec ELSE oldRec
          IN  fn.queries /\ operation \in fn.on /\ (fn.price = Undef \/ r["price"] = fn.price)

\* ------------------------------------------------------------ the call record
\* The terminal operations of the query builder
Terminals ==
    {"get", "getOne", "count", "distinct", "avg", "sum", "min", "max", "groupBy",
     "paginate", "update", "delete"}

\* The builder with nothing accumulated
NoQuery ==
    [where |-> <<>>, orderBy |-> NoOrder, limit |-> Null, offset |-> 0, search |-> <<>>]

\* What the model keeps of the last call: op, table, status ("ok" or "throw")
\* and error; rows, value, result: what it returned; args: the data it was
\* given; q: the builder state a terminal operation found; calls, entry: the
\* calls of a transaction's callback and the tables at its start; follows, of
\* a get: the terminal operation that found a non-empty builder and returned
\* right before it ("" when there is none).
Ret(op, table, status, error) ==
    [op |-> op, table |-> table, status |-> status, error |-> error,
     rows |-> <<>>, value |-> Undef, result |-> Undef, args |-> <<>>, q |-> NoQuery,
     calls |-> <<>>, entry |-> EmptyMap,
     follows |-> IF op = "get" /\ ret.op \in Terminals /\ ret.status = "ok"
                    /\ ret.q # NoQuery
                 THEN ret.op ELSE ""]

Ok(op, table) == Ret(op, table, "ok", "")
Throw(op, table, error) == Ret(op, table, "throw", error)

NotFound == "Table does not exist"

\* ------------------------------------------------------------ transaction snapshot
NoBackup == [active |-> FALSE, data |-> EmptyMap, calls |-> <<>>, entry |-> EmptyMap]

\* backup(): backup.data[tableName] = data keeps the table's array itself, not
\* a copy.  shared says the live table is still that array; once the table is
\* given another array, rows holds the array as it was left.
\* Unshare for a table whose array is changed in place: the snapshot follows
UnshareInPlace(tableName) == backup

\* this._tables.set(tableName, rows) as the snapshot sees it
Unshare(tableName) ==
    IF backup.active /\ tableName \in DOMAIN backup.data
       /\ backup.data[tableName].shared
    THEN [backup EXCEPT !.data[tableName] = [shared |-> FALSE, rows |-> _tables[tableName]]]
    ELSE backup

\* The callback's calls, while a transaction runs
Logged(b, op, status) ==
    IF b.active THEN [b EXCEPT !.calls = Append(@, [op |-> op, status |-> status])] ELSE b

\* ------------------------------------------------------------ conditions and queries
Cond(field, operator, value, values, logic) ==
    [field |-> field, operator |-> operator, value |-> value, values |-> values,
     logic |-> logic]

\* whereIn and whereLike push conditions without a logic tag
Untagged == ""

\* One condition on one row: the switch of _applyConditions and _applyAllConditions
CondHolds(row, condition) ==
    LET v == row[condition.field]
    IN  CASE condition.operator = "IN" ->
                \E i \in 1..Len(condition.values) : condition.values[i] = v
          [] condition.operator = "LIKE" ->
                Includes(ToStr(v), StripPercent(condition.value.s))
          [] condition.operator = ">" -> JsGt(v, condition.value)
          [] condition.operator = "<" -> JsLt(v, condition.value)
          [] condition.operator = ">=" -> JsGe(v, condition.value)
          [] condition.operator = "<=" -> JsLe(v, condition.value)
          [] condition.operator = "!=" -> v # condition.value
          [] OTHER -> v = condition.value

\* AllHold that honours the tag: an 'OR' condition that holds selects the row
AllHoldOrTagged(row, conds) ==
    \/ \A i \in 1..Len(conds) : CondHolds(row, conds[i])
    \/ \E i \in 1..Len(conds) : conds[i].logic = "OR" /\ CondHolds(row, conds[i])

\* row satisfies every condition of conds
AllHold(row, conds) == \A i \in 1..Len(conds) : CondHolds(row, conds[i])

\* _applyAllConditions(row)
_applyAllConditions(row) == AllHold(row, _whereConditions)

\* array.filter(keep), keep a set of positions
RECURSIVE FilterAt(_, _, _)
FilterAt(rows, keep, i) ==
    IF i > Len(rows) THEN <<>>
    ELSE (IF i \in keep THEN <<rows[i]>> ELSE <<>>) \o FilterAt(rows, keep, i + 1)

\* The query builder's state as one value
Builder(where, orderBy, limit, offset, search) ==
    [where |-> where, orderBy |-> orderBy, limit |-> limit, offset |-> offset,
     search |-> search]

Accumulated ==
    Builder(_whereConditions, _orderBy, _limit, _offset, _searchConditions)

\* One (column, term) pair of search(): case-insensitive containment
SearchHolds(row, pair) ==
    Includes(ToLower(ToStr(row[pair.column])), ToLower(ToStr(pair.term)))

\* The filters of _applyConditions: every where-condition, then any search pair
Filtered(data, q) ==
    LET byWhere == FilterAt(data, {i \in 1..Len(data) : AllHold(data[i], q.where)}, 1)
    IN  IF q.search = <<>> THEN byWhere
        ELSE FilterAt(byWhere,
                      {i \in 1..Len(byWhere) :
                          \E j \in 1..Len(q.search) :
                              SearchHolds(byWhere[i], q.search[j])}, 1)

\* The comparator of results.sort: positive when a must follow b.  It answers
\* -1 both ways for a tie (and for values that do not compare), so the sort
\* may leave such a pair in either order.
MustFollow(a, b, orderBy) ==
    IF orderBy.direction = "ASC" THEN JsGt(a[orderBy.column], b[orderBy.column])
    ELSE JsLt(a[orderBy.column], b[orderBy.column])

Orderings(n) == {p \in [1..n -> 1..n] : \A i, j \in 1..n : i # j => p[i] # p[j]}

\* The arrays results.sort may produce
SortOutcomes(rows, orderBy) ==
    IF orderBy = NoOrder THEN {rows}
    ELSE {[i \in 1..Len(rows) |-> rows[p[i]]] :
            p \in {q \in Orderings(Len(rows)) :
                     \A i, j \in 1..Len(rows) :
                         i < j => ~MustFollow(rows[q[i]], rows[q[j]], orderBy)}}

\* results.slice(this._offset, this._offset + this._limit)
Sliced(rows, q) ==
    IF q.limit = Null THEN rows
    ELSE LET from == IF q.offset < Len(rows) THEN q.offset ELSE Len(rows)
             upto == IF q.offset + q.limit.n < Len(rows)
                     THEN q.offset + q.limit.n ELSE Len(rows)
         IN  SubSeq(rows, from + 1, upto)

\* _applyConditions(data): the arrays it may return
_applyConditions(data, q) ==
    {Sliced(sorted, q) : sorted \in SortOutcomes(Filtered(data, q), q.orderBy)}

NoIndex == [hit |-> FALSE, rows |-> <<>>]

\* _executeIndexedQuery(tableName, field, value, operator): null (NoIndex) or
\* the rows the index yields
_executeIndexedQuery(tableName, field, value, operator) ==
    IF tableName \notin DOMAIN _indexes \/ field \notin DOMAIN _indexes[tableName]
    THEN NoIndex
    ELSE LET index == _indexes[tableName][field]
         IN  CASE operator = "=" -> [hit |-> TRUE, rows |-> BTSearch(index, value)]
               [] operator = ">" ->
                    [hit |-> TRUE, rows |-> BTSearchRange(index, PlusEps(value), PlusInf)]
               [] operator = "<" ->
                    [hit |-> TRUE, rows |-> BTSearchRange(index, MinusInf, MinusEps(value))]
               [] operator = ">=" ->
                    [hit |-> TRUE, rows |-> BTSearchRange(index, ValBound(value), PlusInf)]
               [] operator = "<=" ->
                    [hit |-> TRUE, rows |-> BTSearchRange(index, MinusInf, ValBound(value))]
               [] OTHER -> NoIndex

\* results.filter(row => !row.deleted_at) when soft delete is on
Active(rows) ==
    IF _softDelete
    THEN FilterAt(rows, {i \in 1..Len(rows) : ~Truthy(rows[i]["deleted_at"])}, 1)
    ELSE rows

\* _get(tableName) on an existing table, with the builder state q: the
\* arrays it may return
_get(tableName, q) ==
    LET table == _tables[tableName]
        primaryCondition == q.where[1]
        indexedResults ==
            _executeIndexedQuery(tableName, primaryCondition.field,
                                 primaryCondition.value, primaryCondition.operator)
        results ==
            IF q.where # <<>> /\ _performanceEnabled
            THEN IF indexedResults.hit
                 THEN IF Len(q.where) > 1
                      THEN _applyConditions(indexedResults.rows, q)
                      ELSE {indexedResults.rows}
                 ELSE _applyConditions(table, q)
            ELSE _applyConditions(table, q)
    IN  {Active(r) : r \in results}

\* _resetConditions that forgets to empty the where-conditions
_resetConditionsKeepWhere ==
    /\ _whereConditions' = _whereConditions
    /\ _orderBy' = NoOrder
    /\ _limit' = Null
    /\ _offset' = 0
    /\ _searchConditions' = <<>>

\* _resetConditions()
_resetConditions ==
    /\ _whereConditions' = <<>>
    /\ _orderBy' = NoOrder
    /\ _limit' = Null
    /\ _offset' = 0
    /\ _searchConditions' = <<>>

\* ------------------------------------------------------------ indexes
\* _buildIndex(tableName, field, index) when the tables are `tables`: the
\* index filled from the table, each value a copy of its record with _rowIndex
_buildIndex(tables, tableName, field, index) ==
    IF tableName \notin DOMAIN tables THEN index
    ELSE LET table == tables[tableName]
             pairs == [idx \in 1..Len(table) |->
                          [key |-> table[idx][field],
                           value |-> [table[idx] EXCEPT !["_rowIndex"] = Num(idx - 1)]]]
             present == {i \in 1..Len(pairs) : pairs[i].key \notin {Undef, Null}}
         IN  BTBulkInsert(index, FilterAt(pairs, present, 1), degree)

\* createIndex(tableName, field) applied to the index map `indexes`
IndexCreated(indexes, tables, tableName, field) ==
    LET tableIndexes == IF tableName \in DOMAIN indexes THEN indexes[tableName] ELSE EmptyMap
    IN  IF field \in DOMAIN tableIndexes
        THEN MapSet(indexes, tableName, tableIndexes)
        ELSE MapSet(indexes, tableName,
                    MapSet(tableIndexes, field,
                           _buildIndex(tables, tableName, field, EmptyTree)))

RECURSIVE IndexesCreated(_, _, _, _)
IndexesCreated(indexes, tables, tableName, fieldsToIndex) ==
    IF fieldsToIndex = <<>> THEN indexes
    ELSE IndexesCreated(IndexCreated(indexes, tables, tableName, Head(fieldsToIndex)),
                        tables, tableName, Tail(fieldsToIndex))

\* The schema fields not marked indexed: false, in declaration order
RECURSIVE IndexedFields(_)
IndexedFields(schema) ==
    IF schema = <<>> THEN <<>>
    ELSE (IF Head(schema).rules.indexed THEN <<Head(schema).field>> ELSE <<>>)
         \o IndexedFields(Tail(schema))

\* _autoCreateIndexes(tableName, schema); schema <<>> when there is none
_autoCreateIndexes(indexes, tables, tableName, schema) ==
    IF ~_autoIndex THEN indexes
    ELSE IndexesCreated(indexes, tables, tableName, <<"id">> \o IndexedFields(schema))

\* _updateIndexesForInsert(tableName, record)
_updateIndexesForInsert(tableName, record) ==
    IF tableName \notin DOMAIN _indexes THEN _indexes
    ELSE [_indexes EXCEPT ![tableName] =
            [f \in DOMAIN @ |->
                IF record[f] \notin {Undef, Null}
                THEN BTInsert(@[f], record[f], record, degree) ELSE @[f]]]

\* The largest index of the table (0 without one): the model stops inserting
\* into a table whose index has grown to MaxIndexed entries.
IndexLoad(tableName) ==
    IF tableName \notin DOMAIN _indexes \/ DOMAIN _indexes[tableName] = {} THEN 0
    ELSE LET sizes == {_indexes[tableName][f].size : f \in DOMAIN _indexes[tableName]}
         IN  CHOOSE m \in sizes : \A k \in sizes : k <= m

\* ------------------------------------------------------------ insert
\* The record insert and _processBatch build from the caller's data, when
\* `gen` ids have been generated: id, then timestamps
Prepared(data, gen) ==
    LET withId == IF ~Truthy(data["id"])
                  THEN [data EXCEPT !["id"] = GeneratedId(gen + 1)] ELSE data
    IN  IF _timestamps
        THEN [withId EXCEPT !["created_at"] = IF Truthy(@) THEN @ ELSE Iso(now),
                            !["updated_at"] = Iso(now)]
        ELSE withId

SchemaOf(tableName) == IF tableName \in DOMAIN _schemas THEN _schemas[tableName] ELSE <<>>

\* The errors _validateRecord throws, by the rule that failed
ValidationErrors == {"required", "type", "min", "max", "length", "pattern"}

Cancelled == "Insert cancelled by trigger"

\* InsertResult with the push moved before the veto check
InsertResultPushFirst(tableName, record) ==
    LET error == _validateRecord(record, SchemaOf(tableName))
    IN  IF error # NoError
        THEN [status |-> "throw", error |-> error.rule, rows |-> _tables[tableName]]
        ELSE IF ~_trigger(tableName, "beforeInsert", Null, record)
        THEN [status |-> "throw", error |-> Cancelled,
              rows |-> Append(_tables[tableName], record)]
        ELSE [status |-> "ok", error |-> "", rows |-> Append(_tables[tableName], record)]

\* insert from the schema validation to table.push, for the prepared record
\* on an existing table: how the call ends and the rows of the table after it
InsertResult(tableName, record) ==
    LET error == _validateRecord(record, SchemaOf(tableName))
    IN  IF error # NoError
        THEN [status |-> "throw", error |-> error.rule, rows |-> _tables[tableName]]
        ELSE IF ~_trigger(tableName, "beforeInsert", Null, record)
        THEN [status |-> "throw", error |-> Cancelled, rows |-> _tables[tableName]]
        ELSE [status |-> "ok", error |-> "", rows |-> Append(_tables[tableName], record)]

\* insert(tableName, data)
Insert(tableName, data) ==
    /\ ~Truthy(data["id"]) => generated < MaxGen
    /\ backup.active => Len(backup.calls) < MaxCalls
    /\ IF tableName \notin DOMAIN _tables
       THEN /\ ret' = [Throw("insert", tableName, NotFound) EXCEPT !.args = <<data>>]
            /\ backup' = Logged(backup, "insert", "throw")
            /\ UNCHANGED <<store, generated>>
       ELSE LET record == Prepared(data, generated)
                result == InsertResult(tableName, record)
            IN  /\ Len(_tables[tableName]) < MaxRows
                /\ IndexLoad(tableName) < MaxIndexed
                /\ generated' = IF ~Truthy(data["id"]) THEN generated + 1 ELSE generated
                /\ _tables' = [_tables EXCEPT ![tableName] = result.rows]
                /\ ret' = [Ret("insert", tableName, result.status, result.error)
                              EXCEPT !.args = <<data>>]
                /\ backup' = Logged(backup, "insert", result.status)
                /\ IF result.status = "ok"
                   THEN /\ _lastInsertId' = record["id"]
                        /\ _indexes' = IF _performanceEnabled
                                       THEN _updateIndexesForInsert(tableName, record)
                                       ELSE _indexes
                   ELSE UNCHANGED <<_lastInsertId, _indexes>>
                /\ UNCHANGED <<_schemas, _triggers>>
    /\ UNCHANGED <<builder, config, writer, pending, btree, now>>

\* ------------------------------------------------------------ bulkInsert
\* const batchSize = 1000
batchSize == 1000

\* The loop of _processBatch over the batch: the records prepared before the
\* first validation error, that error, and the ids generated
RECURSIVE ProcessRecords(_, _, _, _)
ProcessRecords(batch, schema, gen, processedRecords) ==
    IF batch = <<>>
    THEN [error |-> NoError, records |-> processedRecords, gen |-> gen]
    ELSE LET record == Prepared(Head(batch), gen)
             used == IF ~Truthy(Head(batch)["id"]) THEN gen + 1 ELSE gen
             error == _validateRecord(record, schema)
         IN  IF error # NoError
             THEN [error |-> error, records |-> processedRecords, gen |-> used]
             ELSE ProcessRecords(Tail(batch), schema, used, Append(processedRecords, record))

\* A _processBatch that leaves the index update to a later step
BatchIndexedLater(index, field, processedRecords) == index

\* The bulk update of one index by _processBatch
BatchIndexed(index, field, processedRecords) ==
    LET present == {i \in 1..Len(processedRecords) :
                       processedRecords[i][field] \notin {Undef, Null}}
        pairs == [i \in 1..Len(processedRecords) |->
                     [key |-> processedRecords[i][field], value |-> processedRecords[i]]]
    IN  IF present = {} THEN index
        ELSE BTBulkInsert(index, FilterAt(pairs, present, 1), degree)

\* How many of the data need a generated id
RECURSIVE NeedIds(_)
NeedIds(dataArray) ==
    IF dataArray = <<>> THEN 0
    ELSE (IF ~Truthy(Head(dataArray)["id"]) THEN 1 ELSE 0) + NeedIds(Tail(dataArray))

\* bulkInsert(tableName, dataArray) of at most batchSize records: one batch,
\* one call of _processBatch, which runs without suspending.  The promise
\* resolves ("ok") or rejects ("throw").
BulkInsert(tableName, dataArray) ==
    /\ Len(dataArray) <= batchSize
    /\ generated + NeedIds(dataArray) <= MaxGen
    /\ backup.active => Len(backup.calls) < MaxCalls
    /\ IF dataArray = <<>>
       THEN /\ ret' = Ok("bulkInsert", tableName)
            /\ backup' = Logged(backup, "bulkInsert", "ok")
            /\ UNCHANGED <<store, generated>>
       ELSE LET processed == ProcessRecords(dataArray, SchemaOf(tableName), generated, <<>>)
            IN  /\ generated' = processed.gen
                /\ IF processed.error # NoError
                   THEN /\ ret' = [Throw("bulkInsert", tableName, processed.error.rule)
                                      EXCEPT !.args = dataArray]
                        /\ backup' = Logged(backup, "bulkInsert", "throw")
                        /\ UNCHANGED store
                   ELSE IF tableName \notin DOMAIN _tables
                   THEN /\ ret' = [Throw("bulkInsert", tableName, "TypeError")
                                      EXCEPT !.args = dataArray]
                        /\ backup' = Logged(backup, "bulkInsert", "throw")
                        /\ UNCHANGED store
                   ELSE /\ Len(_tables[tableName]) + Len(dataArray) <= MaxRows
                        /\ IndexLoad(tableName) + Len(dataArray) <= MaxIndexed
                        /\ _tables' = [_tables EXCEPT ![tableName] = @ \o processed.records]
                        /\ _indexes' =
                              IF tableName \in DOMAIN _indexes /\ _performanceEnabled
                              THEN [_indexes EXCEPT ![tableName] =
                                      [f \in DOMAIN @ |->
                                          BatchIndexed(@[f], f, processed.records)]]
                              ELSE _indexes
                        /\ ret' = [Ok("bulkInsert", tableName) EXCEPT !.args = dataArray]
                        /\ backup' = Logged(backup, "bulkInsert", "ok")
                        /\ UNCHANGED <<_schemas, _triggers, _lastInsertId>>
    /\ UNCHANGED <<builder, config, writer, pending, btree, now>>

\* ------------------------------------------------------------ tables
\* createTable(tableName, schema); schema <<>> for none
CreateTable(tableName, schema) ==
    /\ backup.active => Len(backup.calls) < MaxCalls
    /\ IF tableName \in DOMAIN _tables
       THEN /\ ret' = Throw("createTable", tableName, "Table already exists")
            /\ backup' = Logged(backup, "createTable", "throw")
            /\ UNCHANGED store
       ELSE /\ _tables' = MapSet(_tables, tableName, <<>>)
            /\ _schemas' = IF schema # <<>> THEN MapSet(_schemas, tableName, schema)
                           ELSE _schemas
            /\ _indexes' = IF _performanceEnabled
                           THEN _autoCreateIndexes(_indexes, _tables', tableName, schema)
                           ELSE _indexes
            /\ ret' = Ok("createTable", tableName)
            /\ backup' = Logged(backup, "createTable", "ok")
            /\ UNCHANGED <<_triggers, _lastInsertId>>
    /\ UNCHANGED <<builder, config, writer, pending, btree, now, generated>>

\* dropTable(tableName)
DropTable(tableName) ==
    /\ backup.active => Len(backup.calls) < MaxCalls
    /\ IF tableName \notin DOMAIN _tables
       THEN /\ ret' = Throw("dropTable", tableName, NotFound)
            /\ backup' = Logged(backup, "dropTable", "throw")
            /\ UNCHANGED store
       ELSE /\ _tables' = MapDel(_tables, tableName)
            /\ _triggers' = MapDel(_triggers, tableName)
            /\ _schemas' = MapDel(_schemas, tableName)
            /\ ret' = Ok("dropTable", tableName)
            /\ backup' = Logged(Unshare(tableName), "dropTable", "ok")
            /\ UNCHANGED <<_indexes, _lastInsertId>>
    /\ UNCHANGED <<builder, config, writer, pending, btree, now, generated>>

\* The rows setTable stores: stamped when timestamps are on
Stamped(data) ==
    IF _timestamps
    THEN [i \in 1..Len(data) |->
            [data[i] EXCEPT !["created_at"] = IF Truthy(@) THEN @ ELSE Iso(now),
                            !["updated_at"] = IF Truthy(@) THEN @ ELSE Iso(now)]]
    ELSE data

\* setTable(tableName, data, schema); schema <<>> for none
SetTable(tableName, data, schema) ==
    /\ backup.active => Len(backup.calls) < MaxCalls
    /\ IndexLoad(tableName) + Len(data) <= MaxIndexed
    /\ IF schema # <<>> /\ _validateSchema(data, schema) # NoError
       THEN /\ ret' = Throw("setTable", tableName, _validateSchema(data, schema).rule)
            /\ backup' = Logged(backup, "setTable", "throw")
            /\ UNCHANGED store
       ELSE /\ _schemas' = IF schema # <<>> THEN MapSet(_schemas, tableName, schema)
                           ELSE _schemas
            /\ _tables' = MapSet(_tables, tableName, Stamped(data))
            /\ _indexes' =
                  IF _performanceEnabled /\ data # <<>>
                  THEN IF schema # <<>>
                       THEN _autoCreateIndexes(_indexes, _tables', tableName, schema)
                       ELSE IndexCreated(_indexes, _tables', tableName, "id")
                  ELSE _indexes
            /\ ret' = [Ok("setTable", tableName) EXCEPT !.args = data]
            /\ backup' = Logged(Unshare(tableName), "setTable", "ok")
            /\ UNCHANGED <<_triggers, _lastInsertId>>
    /\ UNCHANGED <<builder, config, writer, pending, btree, now, generated>>

\* updateSchema(tableName, schema): the schema is stored, then the existing
\* records are validated against it
UpdateSchema(tableName, schema) ==
    /\ backup.active => Len(backup.calls) < MaxCalls
    /\ IF tableName \notin DOMAIN _tables
       THEN /\ ret' = Throw("updateSchema", tableName, NotFound)
            /\ backup' = Logged(backup, "updateSchema", "throw")
            /\ UNCHANGED _schemas
       ELSE LET error == _validateSchema(_tables[tableName], schema)
            IN  /\ _schemas' = MapSet(_schemas, tableName, schema)
                /\ ret' = IF error # NoError
                          THEN Throw("updateSchema", tableName, error.rule)
                          ELSE Ok("updateSchema", tableName)
                /\ backup' = Logged(backup, "updateSchema",
                                    IF error # NoError THEN "throw" ELSE "ok")
    /\ UNCHANGED <<_tables, _triggers, _indexes, _lastInsertId, builder, config, writer, pending, btree, now,
                   generated>>

\* truncate(tableName)
Truncate(tableName) ==
    /\ backup.active => Len(backup.calls) < MaxCalls
    /\ IF tableName \notin DOMAIN _tables
       THEN /\ ret' = Throw("truncate", tableName, NotFound)
            /\ backup' = Logged(backup, "truncate", "throw")
            /\ UNCHANGED store
       ELSE /\ _tables' = [_tables EXCEPT ![tableName] = <<>>]
            /\ ret' = Ok("truncate", tableName)
            /\ backup' = Logged(Unshare(tableName), "truncate", "ok")
            /\ UNCHANGED <<_schemas, _triggers, _indexes, _lastInsertId>>
    /\ UNCHANGED <<builder, config, writer, pending, btree, now, generated>>

\* createIndex(tableName, field)
CreateIndex(tableName, field) ==
    /\ backup.active => Len(backup.calls) < MaxCalls
    /\ _indexes' = IndexCreated(_indexes, _tables, tableName, field)
    /\ ret' = Ok("createIndex", tableName)
    /\ backup' = Logged(backup, "createIndex", "ok")
    /\ UNCHANGED <<_tables, _schemas, _triggers, _lastInsertId, builder, config, writer, pending, btree, now, generated>>

\* createTrigger(tableName, triggerName, trigger)
CreateTrigger(tableName, triggerName, trigger) ==
    /\ backup.active => Len(backup.calls) < MaxCalls
    /\ LET registered == IF tableName \in DOMAIN _triggers THEN _triggers[tableName] ELSE <<>>
       IN  IF tableName \notin DOMAIN _tables
           THEN /\ ret' = Throw("createTrigger", tableName, NotFound)
                /\ backup' = Logged(backup, "createTrigger", "throw")
                /\ UNCHANGED _triggers
           ELSE IF \E i \in 1..Len(registered) : registered[i].name = triggerName
           THEN /\ ret' = Throw("createTrigger", tableName, "Trigger already exists")
                /\ backup' = Logged(backup, "createTrigger", "throw")
                /\ _triggers' = MapSet(_triggers, tableName, registered)
           ELSE /\ Len(registered) < MaxTriggers
                /\ _triggers' = MapSet(_triggers, tableName,
                                       Append(registered, [name |-> triggerName, fn |-> trigger]))
                /\ ret' = Ok("createTrigger", tableName)
                /\ backup' = Logged(backup, "createTrigger", "ok")
    /\ UNCHANGED <<_tables, _schemas, _indexes, _lastInsertId, builder, config, writer, pending, btree, now, generated>>

\* dropTrigger(tableName, triggerName)
DropTrigger(tableName, triggerName) ==
    /\ backup.active => Len(backup.calls) < MaxCalls
    /\ LET registered == IF tableName \in DOMAIN _triggers THEN _triggers[tableName] ELSE <<>>
           found == {i \in 1..Len(registered) : registered[i].name = triggerName}
       IN  IF found = {}
           THEN /\ ret' = Throw("dropTrigger", tableName, "Trigger does not exist")
                /\ backup' = Logged(backup, "dropTrigger", "throw")
                /\ UNCHANGED _triggers
           ELSE /\ _triggers' = [_triggers EXCEPT ![tableName] =
                                    FilterAt(@, (1..Len(@)) \ found, 1)]
                /\ ret' = Ok("dropTrigger", tableName)
                /\ backup' = Logged(backup, "dropTrigger", "ok")
    /\ UNCHANGED <<_tables, _schemas, _indexes, _lastInsertId, builder, config, writer, pending, btree, now, generated>>

\* ------------------------------------------------------------ query builder
BuilderCall(op) ==
    /\ backup.active => Len(backup.calls) < MaxCalls
    /\ ret' = Ok(op, "")
    /\ backup' = Logged(backup, op, "ok")
    /\ UNCHANGED <<store, config, writer, pending, btree, now, generated>>

\* where(field, value, operator = 'AND')
Where(field, value) ==
    /\ Len(_whereConditions) < MaxConds
    /\ _whereConditions' = Append(_whereConditions, Cond(field, "=", value, <<>>, "AND"))
    /\ BuilderCall("where")
    /\ UNCHANGED <<_orderBy, _limit, _offset, _searchConditions>>

\* orWhere(field, value): where(field, value, 'OR')
OrWhere(field, value) ==
    /\ Len(_whereConditions) < MaxConds
    /\ _whereConditions' = Append(_whereConditions, Cond(field, "=", value, <<>>, "OR"))
    /\ BuilderCall("orWhere")
    /\ UNCHANGED <<_orderBy, _limit, _offset, _searchConditions>>

\* whereOperator(field, operator, value)
WhereOperator(field, operator, value) ==
    /\ Len(_whereConditions) < MaxConds
    /\ _whereConditions' = Append(_whereConditions, Cond(field, operator, value, <<>>, "AND"))
    /\ BuilderCall("whereOperator")
    /\ UNCHANGED <<_orderBy, _limit, _offset, _searchConditions>>

\* whereIn(field, values), values an array
WhereIn(field, values) ==
    /\ Len(_whereConditions) < MaxConds
    /\ _whereConditions' = Append(_whereConditions, Cond(field, "IN", Undef, values, Untagged))
    /\ BuilderCall("whereIn")
    /\ UNCHANGED <<_orderBy, _limit, _offset, _searchConditions>>

\* whereLike(field, pattern)
WhereLike(field, pattern) ==
    /\ Len(_whereConditions) < MaxConds
    /\ _whereConditions' = Append(_whereConditions, Cond(field, "LIKE", pattern, <<>>, Untagged))
    /\ BuilderCall("whereLike")
    /\ UNCHANGED <<_orderBy, _limit, _offset, _searchConditions>>

\* search(conditions): Object.entries of one {column: term}
Search(column, term) ==
    /\ _searchConditions' = <<[column |-> column, term |-> term]>>
    /\ BuilderCall("search")
    /\ UNCHANGED <<_whereConditions, _orderBy, _limit, _offset>>

\* orderBy(column, direction)
OrderBy(column, direction) ==
    /\ _orderBy' = [column |-> column, direction |-> direction]
    /\ BuilderCall("orderBy")
    /\ UNCHANGED <<_whereConditions, _limit, _offset, _searchConditions>>

\* limit(limit, offset)
Limit(limit, offset) ==
    /\ _limit' = Num(limit)
    /\ _offset' = offset
    /\ BuilderCall("limit")
    /\ UNCHANGED <<_whereConditions, _orderBy, _searchConditions>>

\* ------------------------------------------------------------ terminal queries
NaN == [t |-> "number", n |-> 0, s |-> <<"N", "a", "N">>]

\* results.reduce((sum, row) => sum + (row[column] || 0), 0) over numbers
RECURSIVE SumOf(_, _)
SumOf(rows, column) ==
    IF rows = <<>> THEN 0
    ELSE (IF Truthy(rows[Len(rows)][column]) THEN rows[Len(rows)][column].n ELSE 0)
         + SumOf(SubSeq(rows, 1, Len(rows) - 1), column)

\* [...new Set(results.map(row => row[column]))]
RECURSIVE DistinctOf(_, _, _)
DistinctOf(rows, column, seen) ==
    IF rows = <<>> THEN seen
    ELSE DistinctOf(Tail(rows), column,
                    IF \E i \in 1..Len(seen) : seen[i] = Head(rows)[column]
                    THEN seen ELSE Append(seen, Head(rows)[column]))

\* Math.min(...) / Math.max(...) of the column: NaN when a value is no number
Extreme(rows, column, least) ==
    LET nums == {ToNumber(rows[i][column]) : i \in 1..Len(rows)}
    IN  IF \E x \in nums : x.nan THEN NaN
        ELSE Num((CHOOSE x \in nums :
                    \A y \in nums : IF least THEN x.n <= y.n ELSE x.n >= y.n).n)

\* The value a terminal query returns for the rows _get gave it
QueryValue(op, rows, column) ==
    CASE op = "count" -> [value |-> Num(Len(rows)), den |-> 1, values |-> <<>>, groups |-> {}]
      [] op = "sum" -> [value |-> Num(SumOf(rows, column)), den |-> 1, values |-> <<>>,
                        groups |-> {}]
      [] op = "avg" -> [value |-> Num(SumOf(rows, column)),
                        den |-> IF rows = <<>> THEN 1 ELSE Len(rows), values |-> <<>>,
                        groups |-> {}]
      [] op = "min" -> [value |-> IF rows = <<>> THEN Null ELSE Extreme(rows, column, TRUE),
                        den |-> 1, values |-> <<>>, groups |-> {}]
      [] op = "max" -> [value |-> IF rows = <<>> THEN Null ELSE Extreme(rows, column, FALSE),
                        den |-> 1, values |-> <<>>, groups |-> {}]
      [] op = "distinct" -> [value |-> Undef, den |-> 1,
                             values |-> DistinctOf(rows, column, <<>>), groups |-> {}]
      [] op = "groupBy" ->
            [value |-> Undef, den |-> 1, values |-> <<>>,
             groups |-> {[key |-> ToStr(k),
                          rows |-> FilterAt(rows, {i \in 1..Len(rows) :
                                                     ToStr(rows[i][column]) = ToStr(k)}, 1)] :
                          k \in {rows[i][column] : i \in 1..Len(rows)}}]
      [] OTHER -> [value |-> Undef, den |-> 1, values |-> <<>>, groups |-> {}]

\* get, getOne, count, distinct, avg, sum, min, max, groupBy: _get, then
\* _resetConditions, then the value.  A missing table throws out of _get,
\* before the reset.
Query(op, tableName, column) ==
    /\ backup.active => Len(backup.calls) < MaxCalls
    /\ IF tableName \notin DOMAIN _tables
       THEN /\ ret' = Throw(op, tableName, NotFound)
            /\ backup' = Logged(backup, op, "throw")
            /\ UNCHANGED builder
       ELSE \E results \in _get(tableName, Accumulated) :
                /\ _resetConditions
                /\ ret' = [Ok(op, tableName) EXCEPT
                              !.q = Accumulated,
                              !.rows = IF op = "get" THEN results
                                       ELSE IF op = "getOne" /\ results # <<>> THEN <<results[1]>>
                                       ELSE <<>>,
                              !.value = QueryValue(op, results, column).value,
                              !.result = QueryValue(op, results, column)]
                /\ backup' = Logged(backup, op, "ok")
    /\ UNCHANGED <<store, config, writer, pending, btree, now, generated>>

Get(tableName) == Query("get", tableName, "")
GetOne(tableName) == Query("getOne", tableName, "")
Count(tableName) == Query("count", tableName, "")
Distinct(tableName, column) == Query("distinct", tableName, column)
Avg(tableName, column) == Query("avg", tableName, column)
Sum(tableName, column) == Query("sum", tableName, column)
Min(tableName, column) == Query("min", tableName, column)
Max(tableName, column) == Query("max", tableName, column)
GroupBy(tableName, column) == Query("groupBy", tableName, column)

\* paginate(tableName, page, perPage): count (which resets the builder), then
\* limit(perPage, offset)._get, then _resetConditions
Paginate(tableName, page, perPage) ==
    /\ backup.active => Len(backup.calls) < MaxCalls
    /\ IF tableName \notin DOMAIN _tables
       THEN /\ ret' = Throw("paginate", tableName, NotFound)
            /\ backup' = Logged(backup, "paginate", "throw")
            /\ UNCHANGED builder
       ELSE \E counted \in _get(tableName, Accumulated) :
            \E results \in _get(tableName,
                                Builder(<<>>, NoOrder, Num(perPage), (page - 1) * perPage, <<>>)) :
                LET total == Len(counted)
                    totalPages == (total + perPage - 1) \div perPage
                IN  /\ _resetConditions
                    /\ ret' = [Ok("paginate", tableName) EXCEPT
                                  !.q = Accumulated,
                                  !.rows = results,
                                  !.value = Num(total),
                                  !.result = [total |-> total, perPage |-> perPage,
                                              currentPage |-> page, totalPages |-> totalPages,
                                              hasNextPage |-> page < totalPages,
                                              hasPrevPage |-> page > 1]]
                    /\ backup' = Logged(backup, "paginate", "ok")
    /\ UNCHANGED <<store, config, writer, pending, btree, now, generated>>

\* getStorageStats().tables[tableName]
getStorageStats(tableName) ==
    LET rows == _tables[tableName]
        activeRecords == Len(Active(rows))
    IN  [totalRecords |-> Len(rows), activeRecords |-> activeRecords,
         deletedRecords |-> Len(rows) - activeRecords,
         hasSchema |-> tableName \in DOMAIN _schemas]

\* getStorageStats(), read for one table
GetStorageStats(tableName) ==
    /\ tableName \in DOMAIN _tables
    /\ backup.active => Len(backup.calls) < MaxCalls
    /\ ret' = [Ok("getStorageStats", tableName) EXCEPT !.result = getStorageStats(tableName)]
    /\ backup' = Logged(backup, "getStorageStats", "ok")
    /\ UNCHANGED <<store, builder, config, writer, pending, btree, now, generated>>

\* ------------------------------------------------------------ update
\* The entries of the schema for the fields updateData carries
RECURSIVE PartialSchema(_, _)
PartialSchema(schema, updateData) ==
    IF schema = <<>> THEN <<>>
    ELSE (IF updateData[Head(schema).field] # Undef THEN <<Head(schema)>> ELSE <<>>)
         \o PartialSchema(Tail(schema), updateData)

\* indexedResults.some(...): is the row at position idx (from 1) of the table
\* one the index named, by _rowIndex when the index value has one, else by
\* JSON.stringify
IsTargetRow(table, idx, indexedRows) ==
    \E k \in 1..Len(indexedRows) :
        IF indexedRows[k]["_rowIndex"] # Undef
        THEN Num(idx - 1) = indexedRows[k]["_rowIndex"]
        ELSE table[idx] = indexedRows[k]

\* UpdatedRow in which a veto for any record of the table stops the update of
\* every record
UpdatedRowAllOrNone(tableName, table, idx, updateData, selected) ==
    LET row == table[idx]
        newData == Spread(row, updateData)
    IN  IF /\ selected
           /\ _applyAllConditions(row)
           /\ \A k \in 1..Len(table) :
                 _trigger(tableName, "update", table[k], Spread(table[k], updateData))
        THEN newData ELSE row

\* isTargetRow of update for table[idx]: among the rows the index gave for the
\* first condition, or any row when update falls back to the scan
UpdateSelected(tableName, table, idx) ==
    LET primaryCondition == _whereConditions[1]
        indexedResults ==
            _executeIndexedQuery(tableName, primaryCondition.field,
                                 primaryCondition.value, primaryCondition.operator)
    IN  IF _whereConditions # <<>> /\ _performanceEnabled
           /\ indexedResults.hit /\ indexedResults.rows # <<>>
        THEN IsTargetRow(table, idx, indexedResults.rows)
        ELSE TRUE

\* By the time table.map reaches table[idx], a trigger callback called for an
\* earlier row has run a query: this._whereConditions is the empty array that
\* _resetConditions left
UpdateQueriedBefore(tableName, table, idx, updateData) ==
    \E k \in 1..(idx - 1) :
        /\ UpdateSelected(tableName, table, k)
        /\ _applyAllConditions(table[k])
        /\ TriggerQueries(tableName, "update", table[k], Spread(table[k], updateData))

\* The row update puts in place of table[idx]: merged when it is selected,
\* this._whereConditions as it is by then holds, and no trigger vetoes
UpdatedRow(tableName, table, idx, updateData, selected) ==
    LET row == table[idx]
        newData == Spread(row, updateData)
    IN  IF /\ selected
           /\ UpdateQueriedBefore(tableName, table, idx, updateData) \/ _applyAllConditions(row)
           /\ _trigger(tableName, "update", row, newData)
        THEN newData ELSE row

\* _updateFallback(tableName, updateData): the new table
_updateFallback(tableName, updateData) ==
    LET table == _tables[tableName]
    IN  [idx \in 1..Len(table) |-> UpdatedRow(tableName, table, idx, updateData, TRUE)]

\* The table update(tableName, data) stores
UpdatedTable(tableName, updateData) ==
    LET table == _tables[tableName]
        primaryCondition == _whereConditions[1]
        indexedResults ==
            _executeIndexedQuery(tableName, primaryCondition.field,
                                 primaryCondition.value, primaryCondition.operator)
    IN  IF _whereConditions # <<>> /\ _performanceEnabled
           /\ indexedResults.hit /\ indexedResults.rows # <<>>
        THEN [idx \in 1..Len(table) |->
                UpdatedRow(tableName, table, idx, updateData,
                           IsTargetRow(table, idx, indexedResults.rows))]
        ELSE _updateFallback(tableName, updateData)

\* update(tableName, data)
Update(tableName, data) ==
    /\ backup.active => Len(backup.calls) < MaxCalls
    /\ IF tableName \notin DOMAIN _tables
       THEN /\ ret' = Throw("update", tableName, NotFound)
            /\ backup' = Logged(backup, "update", "throw")
            /\ UNCHANGED <<_tables, builder>>
       ELSE LET updateData == IF _timestamps THEN [data EXCEPT !["updated_at"] = Iso(now)]
                              ELSE data
                error == _validateRecord(updateData,
                                         PartialSchema(SchemaOf(tableName), updateData))
            IN  IF error # NoError
                THEN /\ ret' = [Throw("update", tableName, error.rule) EXCEPT !.args = <<data>>]
                     /\ backup' = Logged(backup, "update", "throw")
                     /\ UNCHANGED <<_tables, builder>>
                ELSE /\ _tables' = [_tables EXCEPT ![tableName] =
                                       UpdatedTable(tableName, updateData)]
                     /\ _resetConditions
                     /\ ret' = [Ok("update", tableName) EXCEPT !.args = <<data>>,
                                                               !.q = Accumulated]
                     /\ backup' = Logged(Unshare(tableName), "update", "ok")
    /\ UNCHANGED <<_schemas, _triggers, _indexes, _lastInsertId, config, writer, pending, btree, now, generated>>

\* ------------------------------------------------------------ delete
\* row[condition.field] === condition.value; the value of an IN condition is
\* its array, which no field of a record is
StrictlyEqual(row, condition) ==
    condition.operator # "IN" /\ row[condition.field] = condition.value

\* this._whereConditions.every(condition => row[condition.field] === condition.value)
StrictlyHold(row) ==
    \A i \in 1..Len(_whereConditions) : StrictlyEqual(row, _whereConditions[i])

\* By the time delete reaches table[idx], a trigger callback called for an
\* earlier row has run a query and left this._whereConditions empty
DeleteQueriedBefore(tableName, table, idx) ==
    \E k \in 1..(idx - 1) :
        StrictlyHold(table[k]) /\ TriggerQueries(tableName, "delete", table[k], Null)

\* shouldDelete of delete(tableName) for table[idx]
ShouldDelete(tableName, table, idx) ==
    /\ DeleteQueriedBefore(tableName, table, idx) \/ StrictlyHold(table[idx])
    /\ _trigger(tableName, "delete", table[idx], Null)

\* The table delete(tableName) stores
DeletedTable(tableName) ==
    LET table == _tables[tableName]
    IN  IF _softDelete
        THEN [idx \in 1..Len(table) |->
                IF ShouldDelete(tableName, table, idx)
                THEN [table[idx] EXCEPT !["deleted_at"] = Iso(now)]
                ELSE table[idx]]
        ELSE FilterAt(table, {idx \in 1..Len(table) : ~ShouldDelete(tableName, table, idx)}, 1)

\* delete(tableName)
Delete(tableName) ==
    /\ backup.active => Len(backup.calls) < MaxCalls
    /\ IF tableName \notin DOMAIN _tables
       THEN /\ ret' = Throw("delete", tableName, NotFound)
            /\ backup' = Logged(backup, "delete", "throw")
            /\ UNCHANGED <<_tables, builder>>
       ELSE /\ _tables' = [_tables EXCEPT ![tableName] = DeletedTable(tableName)]
            /\ _resetConditions
            /\ ret' = [Ok("delete", tableName) EXCEPT !.q = Accumulated]
            /\ backup' = Logged(Unshare(tableName), "delete", "ok")
    /\ UNCHANGED <<_schemas, _triggers, _indexes, _lastInsertId, config, writer, pending, btree, now, generated>>

\* ------------------------------------------------------------ transaction
\* transaction(callback) up to the call of the callback: backup()
TransactionBegin ==
    /\ ~backup.active
    /\ backup' = [active |-> TRUE,
                  data |-> [n \in DOMAIN _tables |-> [shared |-> TRUE, rows |-> <<>>]],
                  calls |-> <<>>,
                  entry |-> _tables]
    /\ ret' = Ok("transactionBegin", "")
    /\ UNCHANGED <<store, builder, config, writer, pending, btree, now, generated>>

\* The callback returns: the mutations stand
TransactionCommit ==
    /\ backup.active
    /\ backup' = NoBackup
    /\ ret' = [Ok("transaction", "") EXCEPT !.calls = backup.calls, !.entry = backup.entry]
    /\ UNCHANGED <<store, builder, config, writer, pending, btree, now, generated>>

\* restore(backup): this._tables = new Map(Object.entries(backup.data))
Restored(b) ==
    [n \in DOMAIN b.data |-> IF b.data[n].shared THEN _tables[n] ELSE b.data[n].rows]

\* The callback throws: restore(backup), and the error is thrown again
TransactionRollback ==
    /\ backup.active
    /\ _tables' = Restored(backup)
    /\ backup' = NoBackup
    /\ ret' = [Throw("transaction", "", "callback") EXCEPT
                  !.calls = backup.calls, !.entry = backup.entry]
    /\ UNCHANGED <<_schemas, _triggers, _indexes, _lastInsertId, builder, config, writer, pending, btree, now,
                   generated>>

\* Time passes
Tick ==
    /\ now < MaxClock
    /\ now' = now + 1
    /\ UNCHANGED <<store, builder, config, writer, pending, btree, backup, generated, ret>>

\* ------------------------------------------------------------ the database in use
\* No bulkInsert call is in flight
NoPending == [active |-> FALSE, table |-> "", batches |-> <<>>, entry |-> 0, total |-> 0]

\* new BTreeIndex(TreeDegree), before any insert
NewIndex ==
    /\ treeIndex = EmptyTree
    /\ inserted = <<>>

\* The write queue of the storage class after construction
NewQueue ==
    /\ _writeQueue = <<>>
    /\ _isWriting = FALSE
    /\ _lastError = Null
    /\ operations = <<>>
    /\ startOrder = <<>>

\* new RockdexDB(config) with no defaultData, before any call
Constructed ==
    /\ _tables = EmptyMap
    /\ _schemas = EmptyMap
    /\ _triggers = EmptyMap
    /\ _indexes = EmptyMap
    /\ _whereConditions = <<>>
    /\ _orderBy = NoOrder
    /\ _limit = Null
    /\ _offset = 0
    /\ _searchConditions = <<>>
    /\ _lastInsertId = Null
    /\ backup = NoBackup
    /\ now = 0
    /\ generated = 0
    /\ pending = NoPending
    /\ ret = [op |-> "constructor", table |-> "", status |-> "ok", error |-> "",
              rows |-> <<>>, value |-> Undef, result |-> Undef, args |-> <<>>,
              q |-> NoQuery, calls |-> <<>>, entry |-> EmptyMap, follows |-> ""]

Rec(id, price) == [EmptyRec EXCEPT !["id"] = id, !["price"] = price]

\* Sequences of at most n elements of S
SeqUpTo(S, n) == UNION {[1..k -> S] : k \in 0..n}

\* Trigger callbacks: one that vetoes the insert of a record priced 2, one that
\* vetoes the update and the delete of such a record, one that always throws
VetoInsert ==
    [on |-> {"beforeInsert"}, price |-> Num(2), throws |-> FALSE, returns |-> Bool(FALSE), queries |-> FALSE]
VetoChange ==
    [on |-> {"update", "delete"}, price |-> Num(2), throws |-> FALSE, returns |-> Bool(FALSE), queries |-> FALSE]
Throwing == [on |-> Operations, price |-> Undef, throws |-> TRUE, returns |-> Undef, queries |-> FALSE]

\* A schema that bounds the price: { price: { type: 'number', max: 1 } }
PriceSchema ==
    <<[field |-> "price", rules |-> [NoRules EXCEPT !.type = "number", !.max = Num(1)]]>>

HasTable == "t" \in DOMAIN _tables

\* ---- the insert machine: createTable, triggers, insert and bulkInsert under
\* the default configuration
InsertData == {Rec(Undef, Num(1)), Rec(Num(1), Num(2)), Rec(AUTO_INCREMENT, Num(1))}

BulkData == {Rec(Undef, Num(1)), Rec(Num(1), Num(2))}

Init ==
    /\ Constructed
    /\ NewIndex
    /\ NewQueue
    /\ _softDelete = FALSE
    /\ _timestamps = FALSE
    /\ _performanceEnabled = TRUE
    /\ _autoIndex = TRUE

Next ==
    \/ \E schema \in {<<>>, PriceSchema} : CreateTable("t", schema)
    \/ CreateTrigger("t", "g", VetoInsert)
    \/ DropTrigger("t", "g")
    \/ \E data \in InsertData : Insert("t", data)
    \/ \E dataArray \in SeqUpTo(BulkData, MaxBulk) : BulkInsert("t", dataArray)

Spec == Init /\ [][Next]_vars

\* ------------------------------------------------------------ claims on Spec

\* C2: after any sequence of insert and bulkInsert calls, no two records of a
\* table have the same id and no record has a null or missing id.
C2_UniqueIds ==
    HasTable =>
        \A i, j \in 1..Len(_tables["t"]) :
            /\ _tables["t"][i]["id"] \notin {Undef, Null}
            /\ i # j => _tables["t"][i]["id"] # _tables["t"][j]["id"]

\* The rows that insert(tableName, r) for each r of dataArray, in order, leave
\* in a table holding rows
RECURSIVE SequentialInserts(_, _, _, _)
SequentialInserts(tableName, rows, dataArray, gen) ==
    IF dataArray = <<>> THEN rows
    ELSE LET record == Prepared(Head(dataArray), gen)
             used == IF ~Truthy(Head(dataArray)["id"]) THEN gen + 1 ELSE gen
             accepted == /\ _validateRecord(record, SchemaOf(tableName)) = NoError
                         /\ _trigger(tableName, "beforeInsert", Null, record)
         IN  SequentialInserts(tableName,
                               IF accepted THEN Append(rows, record) ELSE rows,
                               Tail(dataArray), used)

\* C7: bulkInsert(table, records) leaves the table as insert(table, r) for each
\* r in list order does: a record whose trigger vetoes is not appended, the
\* other records are.
C7_BulkAsInserts ==
    [][(ret'.op = "bulkInsert" /\ ret'.status = "ok" /\ HasTable)
          => _tables'["t"] = SequentialInserts("t", _tables["t"], ret'.args, generated)]_vars

\* C8: when the k-th record of a bulkInsert list fails schema validation, the
\* k-1 records before it are in the table after the failed call.
C8_PartialSuccess ==
    [][(ret'.op = "bulkInsert" /\ ret'.status = "throw"
        /\ ret'.error \in ValidationErrors /\ HasTable)
          => _tables'["t"] = _tables["t"]
                \o ProcessRecords(ret'.args, SchemaOf("t"), generated, <<>>).records]_vars

\* The trigger of table t vetoes the insert of data: the record passes the
\* schema and a callback answers false to beforeInsert
Vetoed(data) ==
    /\ HasTable
    /\ _validateRecord(Prepared(data, generated), SchemaOf("t")) = NoError
    /\ ~_trigger("t", "beforeInsert", Null, Prepared(data, generated))

\* C9 as claimed: when a trigger vetoes an insert, insert returns normally, the
\* record is not appended and every other record is unchanged.
C9_VetoReturns ==
    [][(ret'.op = "insert" /\ Vetoed(ret'.args[1]))
          => (ret'.status = "ok" /\ _tables' = _tables)]_vars

\* C9 amended: when a trigger vetoes an insert, insert throws "Insert cancelled
\* by trigger"; the record is not appended and every other record of the table
\* is unchanged.
C9_VetoThrows ==
    [][(ret'.op = "insert" /\ Vetoed(ret'.args[1]))
          => (ret'.status = "throw" /\ ret'.error = Cancelled /\ _tables' = _tables)]_vars

\* An insert into a table that holds a record has just been vetoed
C9_Witness ==
    /\ ret.op = "insert"
    /\ ret.error = Cancelled
    /\ HasTable
    /\ Len(_tables["t"]) > 0

\* ---- the transaction machine: insert calls inside and outside transaction
\* callbacks that return or throw
TxData == {Rec(Undef, Num(1)), Rec(Num(1), Num(2))}

NextTx ==
    \/ CreateTable("t", <<>>)
    \/ \E data \in TxData : Insert("t", data)
    \/ TransactionBegin
    \/ TransactionCommit
    \/ TransactionRollback

SpecTx == Init /\ [][NextTx]_vars

\* The callback of the transaction that just ended made two inserts, both
\* accepted, into table t, which existed when the transaction began
TwoInserts ==
    /\ ret.op = "transaction"
    /\ ret.calls = <<[op |-> "insert", status |-> "ok"], [op |-> "insert", status |-> "ok"]>>
    /\ "t" \in DOMAIN ret.entry

\* C1: when the callback of a transaction inserts two records into a table of
\* N records and then throws, the table holds exactly its N records from
\* before the transaction once transaction has thrown again.
C1_RollbackInserts ==
    (TwoInserts /\ ret.status = "throw")
        => /\ HasTable
           /\ _tables["t"] = ret.entry["t"]

\* ---- the schema machine: insert into tables of one schema per kind of rule
Named(price, name) == [EmptyRec EXCEPT !["price"] = price, !["name"] = name]

Rule(field, rules) == <<[field |-> field, rules |-> rules]>>

\* { name: { required: true } }, { price: { type: 'number' } },
\* { price: { type: 'number', min: 1 } }, { price: { type: 'number', max: 1 } },
\* { price: { type: 'number', required: true, min: 0 } } (README.md:291),
\* { name: { length: 1 } }, { name: { pattern: /^a/ } }
Schemas ==
    {Rule("name", [NoRules EXCEPT !.required = TRUE]),
     Rule("price", [NoRules EXCEPT !.type = "number"]),
     Rule("price", [NoRules EXCEPT !.type = "number", !.min = Num(1)]),
     PriceSchema,
     Rule("price", [NoRules EXCEPT !.type = "number", !.required = TRUE, !.min = Num(0)]),
     Rule("name", [NoRules EXCEPT !.length = Num(1)]),
     Rule("name", [NoRules EXCEPT !.pattern = "^a"])}

SchemaData ==
    {Named(price, Undef) : price \in {Undef, Num(0 - 1), Num(0), Num(2), Str(<<"a">>)}}
        \cup {Named(Num(1), name) : name \in {Str(<<"a">>), Str(<<"b", "b">>)}}

NextSchema ==
    \/ \E schema \in Schemas : CreateTable("t", schema)
    \/ \E data \in SchemaData : Insert("t", data)

SpecSchema == Init /\ [][NextSchema]_vars

\* The value v of a field violates a rule its schema entry declares: a rule is
\* declared when the entry gives it, whatever the bound it gives
Violates(v, rules) ==
    \/ rules.required /\ v \in {Undef, Null}
    \/ rules.type # "" /\ v # Undef /\ TypeOf(v) # rules.type
    \/ rules.min # Undef /\ JsLt(v, rules.min)
    \/ rules.max # Undef /\ JsGt(v, rules.max)
    \/ rules.length # Undef /\ Num(Len(ToStr(v))) # rules.length
    \/ rules.pattern # "" /\ ~PatternTest(rules.pattern, ToStr(v))

Violating(record, schema) ==
    \E i \in DOMAIN schema : Violates(record[schema[i].field], schema[i].rules)

\* C3: insert of a record that violates a declared rule of the table's schema
\* (required, type, min, max, length or pattern) throws a validation error and
\* leaves the table's record count as it was.
C3_SchemaGate ==
    [][(ret'.op = "insert" /\ HasTable
        /\ Violating(Prepared(ret'.args[1], generated), SchemaOf("t")))
          => /\ ret'.status = "throw"
             /\ ret'.error \in ValidationErrors
             /\ Len(_tables'["t"]) = Len(_tables["t"])]_vars

\* ---- the query machine: the builder calls and every terminal operation on a
\* table of two records, soft delete on
QueryRows == <<Rec(Num(1), Num(1)), Rec(Num(2), Num(2))>>

Patch(price) == [EmptyRec EXCEPT !["price"] = price]

InitQuery ==
    /\ Constructed
    /\ NewIndex
    /\ NewQueue
    /\ _softDelete = TRUE
    /\ _timestamps = FALSE
    /\ _performanceEnabled = TRUE
    /\ _autoIndex = TRUE

NextQuery ==
    \/ SetTable("t", QueryRows, <<>>)
    \/ Where("price", Num(1))
    \/ Search("price", Str(<<"1">>))
    \/ OrderBy("price", "DESC")
    \/ Limit(1, 1)
    \/ Get("t")
    \/ GetOne("t")
    \/ Count("t")
    \/ Distinct("t", "price")
    \/ Avg("t", "price")
    \/ Sum("t", "price")
    \/ Min("t", "price")
    \/ Max("t", "price")
    \/ GroupBy("t", "price")
    \/ Paginate("t", 1, 1)
    \/ Update("t", Patch(Num(2)))
    \/ Delete("t")

SpecQuery == InitQuery /\ [][NextQuery]_vars

\* The records of rows that carry no deleted_at
RECURSIVE WithoutDeleted(_)
WithoutDeleted(rows) ==
    IF rows = <<>> THEN <<>>
    ELSE (IF Head(rows)["deleted_at"] = Undef THEN <<Head(rows)>> ELSE <<>>)
         \o WithoutDeleted(Tail(rows))

\* C4: when a terminal operation (get, getOne, count, distinct, avg, sum, min,
\* max, groupBy, paginate, update, delete) has returned, the where-conditions,
\* search terms, orderBy, limit and offset are cleared, and a get that follows
\* it directly returns every active record of the table.
C4_BuilderReset ==
    /\ (ret.op \in Terminals /\ ret.status = "ok") => Accumulated = NoQuery
    /\ (ret.op = "get" /\ ret.status = "ok" /\ ret.follows # "")
          => /\ ret.q = NoQuery
             /\ ret.rows = WithoutDeleted(_tables[ret.table])

\* A get that returned records right after a delete that found conditions
C4_Witness ==
    /\ ret.op = "get"
    /\ ret.status = "ok"
    /\ ret.follows = "delete"
    /\ ret.rows # <<>>
    /\ Len(ret.rows) < Len(_tables["t"])

\* ---- the index machine: every mutation of a table that has an index on
\* price, and the indexed query whereOperator('price', '=', 1).get; the
\* callbacks of its transactions call insert and truncate, and throw
InsertIndexed == Rec(Num(1), Num(1))
BulkIndexed == Rec(Num(2), Num(1))

NextIndex ==
    \/ ~backup.active /\ CreateTable("t", <<>>)
    \/ ~backup.active /\ CreateIndex("t", "price")
    \/ Insert("t", InsertIndexed)
    \/ ~backup.active /\ BulkInsert("t", <<BulkIndexed>>)
    \/ ~backup.active /\ SetTable("t", <<InsertIndexed>>, <<>>)
    \/ ~backup.active /\ WhereOperator("price", "=", Num(1))
    \/ ~backup.active /\ Update("t", Patch(Num(2)))
    \/ ~backup.active /\ Delete("t")
    \/ Truncate("t")
    \/ TransactionBegin
    \/ TransactionRollback
    \/ ~backup.active /\ Get("t")

SpecIndex == Init /\ [][NextIndex]_vars

\* A record as the caller sees it, without the _rowIndex that _buildIndex adds
\* to its copies
Bare(record) == [record EXCEPT !["_rowIndex"] = Undef]

BareSet(rows) == {Bare(rows[i]) : i \in 1..Len(rows)}

\* The last call was whereOperator('price', '=', 1).get on table t, which has
\* an index on price
IndexedGet ==
    /\ ret.op = "get"
    /\ ret.status = "ok"
    /\ ret.q = [NoQuery EXCEPT !.where = <<Cond("price", "=", Num(1), <<>>, "AND")>>]
    /\ "t" \in DOMAIN _indexes
    /\ "price" \in DOMAIN _indexes["t"]

\* C5: in every reachable state of a table with an index on F, the query
\* whereOperator('F', '=', v).get returns the same set of records as filtering
\* the table's current records by record.F === v.
C5_IndexedAsScanned ==
    IndexedGet =>
        BareSet(ret.rows)
            = {r \in BareSet(_tables["t"]) : r["price"] = Num(1)}

\* ---- the soft-delete machine: where(...).delete and get on a table of the
\* default configuration with softDelete on, its records of distinct ids
SoftData == {Rec(Num(1), Num(1)), Rec(Num(2), Num(1))}

\* No record of table t has the id of data
Fresh(data) ==
    HasTable => \A i \in 1..Len(_tables["t"]) : _tables["t"][i]["id"] # data["id"]

NextSoft ==
    \/ CreateTable("t", <<>>)
    \/ \E data \in SoftData : Fresh(data) /\ Insert("t", data)
    \/ \E field \in {"id", "price"} : Where(field, Num(1))
    \/ Delete("t")
    \/ Get("t")
    \/ GetStorageStats("t")

SpecSoft == InitQuery /\ [][NextSoft]_vars

\* The positions of the records of rows that carry deleted_at
Deleted(rows) == {i \in 1..Len(rows) : rows[i]["deleted_at"] # Undef}

\* C6: with softDelete on, where(...).delete marks exactly the records that
\* match and keeps the stored sequence at its length; no later get returns a
\* record that carries deleted_at in the table; and the active count is the
\* stored count minus the number of records carrying deleted_at.
C6_SoftDelete ==
    /\ [][(ret'.op = "delete" /\ ret'.status = "ok")
            => /\ Len(_tables'["t"]) = Len(_tables["t"])
               /\ Deleted(_tables'["t"])
                    = Deleted(_tables["t"])
                        \cup {i \in 1..Len(_tables["t"]) :
                                AllHold(_tables["t"][i], _whereConditions)}]_vars
    /\ [](ret.op = "get" /\ ret.status = "ok"
            => \A i \in 1..Len(ret.rows) : \A j \in Deleted(_tables["t"]) :
                   ret.rows[i]["id"] # _tables["t"][j]["id"])
    /\ [](ret.op = "getStorageStats"
            => ret.result.activeRecords
                 = Len(_tables["t"]) - Cardinality(Deleted(_tables["t"])))

\* ---- the delete machine: delete and get under a condition of each operator,
\* with and without a trigger that vetoes, in hard and in soft mode
DeleteRows ==
    <<[Rec(Num(1), Num(1)) EXCEPT !["name"] = Str(<<"a">>)], Rec(Num(2), Num(2))>>

Comparisons == {"=", ">", "<", ">=", "<=", "!="}

InitDelete ==
    /\ Constructed
    /\ NewIndex
    /\ NewQueue
    /\ _softDelete \in BOOLEAN
    /\ _timestamps = FALSE
    /\ _performanceEnabled = TRUE
    /\ _autoIndex = TRUE

NextDelete ==
    \/ SetTable("t", DeleteRows, <<>>)
    \/ CreateTrigger("t", "g", VetoChange)
    \/ DropTrigger("t", "g")
    \/ \E operator \in Comparisons : WhereOperator("price", operator, Num(1))
    \/ WhereIn("price", <<Num(1)>>)
    \/ WhereLike("name", Str(<<"%", "a", "%">>))
    \/ Get("t")
    \/ Delete("t")

SpecDelete == InitDelete /\ [][NextDelete]_vars

\* delete must take the row: it satisfies every accumulated condition under
\* the condition's operator and no trigger vetoes
Selected(row) ==
    /\ AllHold(row, _whereConditions)
    /\ _trigger("t", "delete", row, Null)

\* C10: delete removes (hard mode) or marks with deleted_at (soft mode) exactly
\* the records that satisfy every accumulated condition under that condition's
\* own operator, except those a trigger vetoes; all other records are kept
\* unchanged.
C10_DeleteSelection ==
    [][(ret'.op = "delete" /\ ret'.status = "ok")
          => LET table == _tables["t"]
                 taken == {i \in 1..Len(table) : Selected(table[i])}
             IN  _tables'["t"]
                   = IF _softDelete
                     THEN [i \in 1..Len(table) |->
                             IF i \in taken
                             THEN [table[i] EXCEPT !["deleted_at"] = Iso(now)]
                             ELSE table[i]]
                     ELSE FilterAt(table, (1..Len(table)) \ taken, 1)]_vars

\* ---- the update machine: update under a condition on id (indexed by
\* createTable) or on price (not indexed), with and without a vetoing trigger
UpdateData == {Rec(Num(1), Num(1)), Rec(Num(2), Num(1))}

NextUpdate ==
    \/ CreateTable("t", <<>>)
    \/ \E data \in UpdateData : Fresh(data) /\ Insert("t", data)
    \/ CreateTrigger("t", "g", VetoChange)
    \/ DropTrigger("t", "g")
    \/ \E field \in {"id", "price"} : Where(field, Num(1))
    \/ \E price \in {Num(2), Num(3)} : Update("t", Patch(price))

SpecUpdate == Init /\ [][NextUpdate]_vars

\* The shallow merge of record and patch, patch fields winning
Merged(record, patch) == [f \in Fields |-> IF patch[f] = Undef THEN record[f] ELSE patch[f]]

\* C11: update replaces exactly the records that satisfy all accumulated
\* where-conditions and are not vetoed by the shallow merge of record and
\* patch; every other record, the count and the order are unchanged, whether
\* or not the first condition's field has an index.
C11_UpdateSelection ==
    [][(ret'.op = "update" /\ ret'.status = "ok")
          => LET table == _tables["t"]
                 patch == ret'.args[1]
             IN  _tables'["t"]
                   = [i \in 1..Len(table) |->
                        IF /\ AllHold(table[i], _whereConditions)
                           /\ _trigger("t", "update", table[i], Merged(table[i], patch))
                        THEN Merged(table[i], patch)
                        ELSE table[i]]]_vars

\* ---- the drop machine: a table with a schema, a trigger and its indexes is
\* filled, queried by id, dropped and created again
NextDrop ==
    \/ \E schema \in {<<>>, PriceSchema} : CreateTable("t", schema)
    \/ \E data \in UpdateData : Fresh(data) /\ Insert("t", data)
    \/ CreateTrigger("t", "g", VetoChange)
    \/ DropTable("t")
    \/ Where("id", Num(1))
    \/ Get("t")

SpecDrop == Init /\ [][NextDrop]_vars

\* C12: after dropTable(name) no schema, trigger or secondary index of the
\* table remains, and once the table is created again no query on it returns
\* a record inserted before the drop (every record a get returns is a record
\* of the table).
C12_DropRemovesAll ==
    /\ (ret.op = "dropTable" /\ ret.status = "ok")
          => /\ "t" \notin DOMAIN _schemas
             /\ "t" \notin DOMAIN _triggers
             /\ "t" \notin DOMAIN _indexes
    /\ (ret.op = "get" /\ ret.status = "ok")
          => BareSet(ret.rows) \subseteq BareSet(_tables["t"])

\* ---- the schema-change machine: updateSchema on a table that holds records
\* priced 1 and 2, with schemas that bound the price by 1 and by 2
\* { price: { type: 'number', max: 2 } }
LooseSchema == Rule("price", [NoRules EXCEPT !.type = "number", !.max = Num(2)])

NextEvolve ==
    \/ \E schema \in {<<>>, LooseSchema} : CreateTable("t", schema)
    \/ \E data \in {Rec(Num(1), Num(1)), Rec(Num(2), Num(2)), Rec(Num(3), Num(3))} :
          Fresh(data) /\ Insert("t", data)
    \/ \E schema \in {PriceSchema, LooseSchema} : UpdateSchema("t", schema)
    \/ \E price \in {Num(2), Num(3)} : Update("t", Patch(price))

SpecEvolve == Init /\ [][NextEvolve]_vars

\* C13: when updateSchema fails because an existing record violates the new
\* schema, nothing is applied: the table keeps the schema it had, which is
\* what getSchema returns and what later inserts and updates are validated
\* against.
C13_SchemaKept ==
    [][(ret'.op = "updateSchema" /\ ret'.status = "throw"
        /\ ret'.error \in ValidationErrors)
          => _schemas' = _schemas]_vars

\* ---- the missing-table machine: the mutations of a table that may not
\* exist (not created yet, or dropped)
NextMissing ==
    \/ CreateTable("t", <<>>)
    \/ DropTable("t")
    \/ \E data \in UpdateData : Insert("t", data)
    \/ \E dataArray \in SeqUpTo({Rec(Undef, Num(1))}, MaxBulk) : BulkInsert("t", dataArray)
    \/ Where("price", Num(1))
    \/ Update("t", Patch(Num(2)))
    \/ Delete("t")
    \/ Truncate("t")

SpecMissing == Init /\ [][NextMissing]_vars

Mutations == {"insert", "bulkInsert", "update", "delete", "truncate"}

\* C14: insert, bulkInsert, update, delete and truncate of a table that does
\* not exist each fail with the table-does-not-exist error and leave the
\* tables, the indexes and the last insert id as they were.
C14_MissingTable ==
    [][(ret'.op \in Mutations /\ ~HasTable)
          => /\ ret'.status = "throw"
             /\ ret'.error = NotFound
             /\ _tables' = _tables
             /\ _indexes' = _indexes
             /\ _lastInsertId' = _lastInsertId]_vars

\* ---- the rollback machine: transactions whose callbacks call where, update,
\* delete and truncate on a table of two records, and return or throw
NextRollback ==
    \/ ~backup.active /\ SetTable("t", QueryRows, <<>>)
    \/ Where("price", Num(1))
    \/ Update("t", Patch(Num(2)))
    \/ Delete("t")
    \/ Truncate("t")
    \/ TransactionBegin
    \/ TransactionCommit
    \/ TransactionRollback

SpecRollback == InitDelete /\ [][NextRollback]_vars

\* The callback called update, delete or truncate, and besides them only where
ChangesOnly(calls) ==
    /\ \A i \in 1..Len(calls) : calls[i].op \in {"where", "update", "delete", "truncate"}
    /\ \E i \in 1..Len(calls) : calls[i].op # "where" /\ calls[i].status = "ok"

\* C15: when the callback of a transaction performs update, delete or truncate
\* operations and then throws, every table's record sequence is afterwards
\* what it was at transaction entry and the callback's exception is thrown to
\* the caller; when the callback returns, its mutations stay in place.
C15_RollbackChanges ==
    /\ []((ret.op = "transaction" /\ ret.status = "throw" /\ ChangesOnly(ret.calls))
            => (_tables = ret.entry /\ ret.error = "callback"))
    /\ [][(ret'.op = "transaction" /\ ret'.status = "ok") => _tables' = _tables]_vars

\* A callback truncated a table of two records, updated it and threw
C15_Witness ==
    /\ ret.op = "transaction"
    /\ ret.status = "throw"
    /\ ret.calls = <<[op |-> "truncate", status |-> "ok"], [op |-> "update", status |-> "ok"]>>
    /\ HasTable
    /\ Len(_tables["t"]) = 2

\* ------------------------------------------------ further claims on Spec

\* C16: insert of a record whose id is the AUTO_INCREMENT marker stores the
\* record under a newly generated id; no record of a table ever has the marker
\* string itself as its id.
C16_MarkerReplaced ==
    /\ [](HasTable => \A i \in 1..Len(_tables["t"]) : _tables["t"][i]["id"] # AUTO_INCREMENT)
    /\ [][(ret'.op = "insert" /\ ret'.status = "ok" /\ ret'.args[1]["id"] = AUTO_INCREMENT)
            => (/\ generated' = generated + 1
                /\ _tables'["t"] = Append(_tables["t"],
                        [ret'.args[1] EXCEPT !["id"] = GeneratedId(generated')]))]_vars

\* getLastInsertId()
getLastInsertId == _lastInsertId

\* C17: after an insert or a bulkInsert has completed successfully,
\* getLastInsertId() returns the id of the record most recently appended to
\* the table.
C17_LastInsertId ==
    (ret.op \in {"insert", "bulkInsert"} /\ ret.status = "ok" /\ HasTable /\ _tables["t"] # <<>>)
        => getLastInsertId = _tables["t"][Len(_tables["t"])]["id"]

\* ---- the ordering machine: a table of up to three records with different
\* prices, with or without an index on price, queried by an optional
\* whereOperator on price, orderBy('price', ...) and limit(1, ...)
SortedData == {Rec(Num(1), Num(2)), Rec(Num(2), Num(1)), Rec(Num(3), Num(3))}

NextSorted ==
    \/ CreateTable("t", <<>>)
    \/ CreateIndex("t", "price")
    \/ \E data \in SortedData : Fresh(data) /\ Insert("t", data)
    \/ \E operator \in {">", ">="} : WhereOperator("price", operator, Num(1))
    \/ \E direction \in {"ASC", "DESC"} : OrderBy("price", direction)
    \/ \E offset \in {0, 1} : Limit(1, offset)
    \/ Get("t")

SpecSorted == Init /\ [][NextSorted]_vars

BareSeq(rows) == [i \in 1..Len(rows) |-> Bare(rows[i])]

\* C18: get with orderBy(column, direction) returns the selected records
\* sorted by that column, non-decreasing for ASC and non-increasing for DESC,
\* whatever the where-conditions and whether or not an index resolved them.
C18_Ordered ==
    (ret.op = "get" /\ ret.status = "ok" /\ ret.q.orderBy # NoOrder)
        => /\ \A i \in 1..Len(ret.rows) : AllHold(ret.rows[i], ret.q.where)
           /\ \A i, j \in 1..Len(ret.rows) :
                i < j =>
                    IF ret.q.orderBy.direction = "DESC"
                    THEN ret.rows[i]["price"].n >= ret.rows[j]["price"].n
                    ELSE ret.rows[i]["price"].n <= ret.rows[j]["price"].n

\* C19: when limit(n, offset) is set, get returns the slice [offset, offset+n)
\* of the filtered and ordered result, at most n records, whether or not an
\* index resolved the where-conditions.
C19_Sliced ==
    (ret.op = "get" /\ ret.status = "ok" /\ ret.q.limit # Null)
        => /\ Len(ret.rows) <= ret.q.limit.n
           /\ BareSeq(ret.rows) \in
                {BareSeq(rows) : rows \in _applyConditions(_tables["t"], ret.q)}

\* ---- the paging machine: a table of three records, some of them deleted
\* one by one with soft delete on or off, read page by page
PageRows == <<Rec(Num(1), Num(1)), Rec(Num(2), Num(1)), Rec(Num(3), Num(1))>>

NextPage ==
    \/ SetTable("t", PageRows, <<>>)
    \/ \E id \in {Num(1), Num(2)} : Where("id", id)
    \/ Delete("t")
    \/ \E page \in 1..3, perPage \in 1..2 : Paginate("t", page, perPage)

SpecPage == InitDelete /\ [][NextPage]_vars

Least(a, b) == IF a < b THEN a ELSE b

\* C20: on a table with `total` active records and no pending builder state,
\* with soft delete on or off, paginate(table, page, perPage) returns
\* pagination.total = total, totalPages = ceil(total / perPage), hasNextPage =
\* (page < totalPages), hasPrevPage = (page > 1), and data of exactly
\* min(perPage, max(0, total - (page - 1) * perPage)) records.
C20_Pages ==
    (ret.op = "paginate" /\ ret.status = "ok" /\ ret.q = NoQuery)
        => LET total == Len(Active(_tables["t"]))
               page == ret.result.currentPage
               perPage == ret.result.perPage
               totalPages == (total + perPage - 1) \div perPage
               rest == total - (page - 1) * perPage
           IN  /\ ret.result.total = total
               /\ ret.result.totalPages = totalPages
               /\ ret.result.hasNextPage = (page < totalPages)
               /\ ret.result.hasPrevPage = (page > 1)
               /\ Len(ret.rows) = Least(perPage, IF rest > 0 THEN rest ELSE 0)

\* ---- the trigger machine: a table of up to three records under up to two
\* triggers, one that throws on every call and one that answers false for a
\* record priced 2; insert, and update and delete of every record
VetoTwo == [on |-> Operations, price |-> Num(2), throws |-> FALSE, returns |-> Bool(FALSE), queries |-> FALSE]

TriggerData == {Rec(Num(1), Num(1)), Rec(Num(2), Num(2)), Rec(Num(3), Num(1))}

\* update data that leaves the price alone: { name: 'a' }
Rename == [EmptyRec EXCEPT !["name"] = Str(<<"a">>)]

NextTrigger ==
    \/ CreateTable("t", <<>>)
    \/ \E name \in {"a", "b"}, fn \in {Throwing, VetoTwo} : CreateTrigger("t", name, fn)
    \/ \E name \in {"a", "b"} : DropTrigger("t", name)
    \/ \E data \in TriggerData : Fresh(data) /\ Insert("t", data)
    \/ Update("t", Rename)
    \/ Delete("t")

SpecTrigger == Init /\ [][NextTrigger]_vars

Registered == IF "t" \in DOMAIN _triggers THEN _triggers["t"] ELSE <<>>

\* The callback fn, returning undefined where it throws
AsIfReturned(fn) == IF fn.throws THEN [fn EXCEPT !.throws = FALSE, !.returns = Undef] ELSE fn

\* No callback registered on t answers false, each throwing callback taken as
\* having returned
Commits(operation, oldRec, newRec) ==
    \A i \in 1..Len(Registered) :
        TriggerOutcome(AsIfReturned(Registered[i].fn), operation, oldRec, newRec).value
            # Bool(FALSE)

\* C21: a trigger callback that throws never propagates its exception to the
\* caller of insert, update or delete and does not veto: the mutation proceeds
\* exactly as if that callback had returned normally, and the remaining
\* triggers are still invoked and may veto.
C21_ThrowIgnored ==
    [][/\ (ret'.op = "insert" /\ HasTable)
            => LET record == Prepared(ret'.args[1], generated)
               IN  IF Commits("beforeInsert", Null, record)
                   THEN ret'.status = "ok" /\ _tables'["t"] = Append(_tables["t"], record)
                   ELSE ret'.status = "throw" /\ ret'.error = Cancelled /\ _tables' = _tables
       /\ (ret'.op = "update" /\ HasTable)
            => /\ ret'.status = "ok"
               /\ _tables'["t"] =
                    [i \in 1..Len(_tables["t"]) |->
                        LET row == _tables["t"][i]
                            newData == Spread(row, ret'.args[1])
                        IN  IF Commits("update", row, newData) THEN newData ELSE row]
       /\ (ret'.op = "delete" /\ HasTable)
            => /\ ret'.status = "ok"
               /\ _tables'["t"] =
                    FilterAt(_tables["t"],
                             {i \in 1..Len(_tables["t"]) :
                                 ~Commits("delete", _tables["t"][i], Null)}, 1)]_vars

\* Under a throwing trigger followed by a vetoing one, an update has renamed
\* two records and left the record priced 2 alone
C21_Witness ==
    /\ ret.op = "update"
    /\ ret.status = "ok"
    /\ Registered = <<[name |-> "a", fn |-> Throwing], [name |-> "b", fn |-> VetoTwo]>>
    /\ Len(_tables["t"]) = 3
    /\ \A i \in 1..3 :
          _tables["t"][i]["name"] = IF _tables["t"][i]["price"] = Num(2) THEN Undef
                                    ELSE Str(<<"a">>)

\* ---- the event machine: a table of up to three records and one trigger
\* registered under the name 'beforeInsert' whose callback, () => false,
\* answers false whatever the operation
Refuse == [on |-> Operations, price |-> Undef, throws |-> FALSE, returns |-> Bool(FALSE), queries |-> FALSE]

NextEvent ==
    \/ CreateTable("t", <<>>)
    \/ CreateTrigger("t", "beforeInsert", Refuse)
    \/ DropTrigger("t", "beforeInsert")
    \/ \E data \in TriggerData : Fresh(data) /\ Insert("t", data)
    \/ Update("t", Rename)
    \/ Delete("t")

SpecEvent == Init /\ [][NextEvent]_vars

\* C22: a trigger registered on a table under an event name is invoked only
\* for mutations of that event: with only 'beforeInsert' triggers registered,
\* update and delete change every record they match, whatever the callbacks
\* return.
C22_EventOnly ==
    [][(HasTable /\ \A i \in 1..Len(Registered) : Registered[i].name = "beforeInsert")
          => /\ ret'.op = "update"
                  => _tables'["t"] = [i \in 1..Len(_tables["t"]) |->
                                         Spread(_tables["t"][i], ret'.args[1])]
             /\ ret'.op = "delete" => _tables'["t"] = <<>>]_vars

\* ---- the return-value machine: a table of up to three records and one
\* trigger whose callback returns false, undefined, null, 0 or true for a
\* record priced 2
ReturnValues == {Bool(FALSE), Undef, Null, Num(0), Bool(TRUE)}

Answer(value) == [on |-> Operations, price |-> Num(2), throws |-> FALSE, returns |-> value, queries |-> FALSE]

NextReturn ==
    \/ CreateTable("t", <<>>)
    \/ \E value \in ReturnValues : CreateTrigger("t", "g", Answer(value))
    \/ DropTrigger("t", "g")
    \/ \E data \in TriggerData : Fresh(data) /\ Insert("t", data)
    \/ Update("t", Rename)
    \/ Delete("t")

SpecReturn == Init /\ [][NextReturn]_vars

\* The values the callbacks registered on t return for this call
Returned(operation, oldRec, newRec) ==
    {TriggerOutcome(Registered[i].fn, operation, oldRec, newRec).value :
        i \in 1..Len(Registered)}

\* C23 as claimed: a trigger callback that returns any falsy value (false,
\* undefined, null, 0) vetoes the mutation for the affected record.
C23_FalsyVetoes ==
    [][/\ (ret'.op = "update" /\ HasTable)
            => \A i \in 1..Len(_tables["t"]) :
                  LET row == _tables["t"][i]
                  IN  (\E v \in Returned("update", row, Spread(row, ret'.args[1])) : ~Truthy(v))
                        => _tables'["t"][i] = row
       /\ (ret'.op = "delete" /\ HasTable)
            => \A i \in 1..Len(_tables["t"]) :
                  (\E v \in Returned("delete", _tables["t"][i], Null) : ~Truthy(v))
                        => \E j \in 1..Len(_tables'["t"]) : _tables'["t"][j] = _tables["t"][i]
       /\ (ret'.op = "insert" /\ HasTable)
            => ((\E v \in Returned("beforeInsert", Null, Prepared(ret'.args[1], generated)) :
                    ~Truthy(v))
                  => _tables' = _tables)]_vars

\* C23 amended: a trigger callback vetoes the mutation for the affected record
\* exactly when it returns false; after any other return value, the falsy
\* undefined, null and 0 included, the mutation of the record proceeds.
C23_FalseVetoes ==
    [][/\ (ret'.op = "update" /\ HasTable)
            => _tables'["t"] =
                  [i \in 1..Len(_tables["t"]) |->
                      LET row == _tables["t"][i]
                          newData == Spread(row, ret'.args[1])
                      IN  IF Bool(FALSE) \in Returned("update", row, newData)
                          THEN row ELSE newData]
       /\ (ret'.op = "delete" /\ HasTable)
            => _tables'["t"] =
                  FilterAt(_tables["t"],
                           {i \in 1..Len(_tables["t"]) :
                               Bool(FALSE) \in Returned("delete", _tables["t"][i], Null)}, 1)
       /\ (ret'.op = "insert" /\ HasTable)
            => LET record == Prepared(ret'.args[1], generated)
               IN  _tables'["t"] =
                      IF Bool(FALSE) \in Returned("beforeInsert", Null, record)
                      THEN _tables["t"] ELSE Append(_tables["t"], record)]_vars

\* Under a callback that returns false for the record priced 2, an update has
\* renamed the two other records and left that one alone
C23_Witness ==
    /\ ret.op = "update"
    /\ ret.status = "ok"
    /\ Registered = <<[name |-> "g", fn |-> Answer(Bool(FALSE))]>>
    /\ Len(_tables["t"]) = 3
    /\ \A i \in 1..3 :
          _tables["t"][i]["name"] = IF _tables["t"][i]["price"] = Num(2) THEN Undef
                                    ELSE Str(<<"a">>)

\* ---- the veto machine: update and delete of the records named 'a', two of
\* the table's three, or of all three, under a trigger that vetoes the change
\* of the record priced 2; the name has no index
Named3(id, price, name) == [Rec(id, price) EXCEPT !["name"] = name]

VetoData ==
    {Named3(Num(1), Num(1), Str(<<"a">>)), Named3(Num(2), Num(2), Str(<<"a">>)),
     Named3(Num(3), Num(1), Str(<<"b">>))}

\* update data that leaves price and name alone: { created_at: 'T0' }
Touch == [EmptyRec EXCEPT !["created_at"] = Iso(0)]

NextVeto ==
    \/ CreateTable("t", <<>>)
    \/ \E data \in VetoData : Fresh(data) /\ Insert("t", data)
    \/ CreateTrigger("t", "g", VetoChange)
    \/ DropTrigger("t", "g")
    \/ Where("name", Str(<<"a">>))
    \/ Update("t", Touch)
    \/ Delete("t")

SpecVeto == InitDelete /\ [][NextVeto]_vars

\* The records of t that the accumulated conditions match and for which no
\* callback answers false to this operation with this update data
Unvetoed(operation, updateData) ==
    {i \in 1..Len(_tables["t"]) :
        LET row == _tables["t"][i]
        IN  /\ AllHold(row, _whereConditions)
            /\ Bool(FALSE) \notin
                 Returned(operation, row,
                          IF operation = "update" THEN Spread(row, updateData) ELSE Null)}

\* C24: in an update or delete that matches several records, a veto for one
\* record leaves that record unchanged and does not prevent the mutation of
\* the other matched records: the mutated records are exactly the matched
\* records whose trigger invocation did not veto.
C24_VetoIsolated ==
    [][/\ (ret'.op = "update" /\ HasTable)
            => _tables'["t"] =
                  [i \in 1..Len(_tables["t"]) |->
                      IF i \in Unvetoed("update", ret'.args[1])
                      THEN Spread(_tables["t"][i], ret'.args[1]) ELSE _tables["t"][i]]
       /\ (ret'.op = "delete" /\ HasTable)
            => _tables'["t"] =
                  IF _softDelete
                  THEN [i \in 1..Len(_tables["t"]) |->
                          IF i \in Unvetoed("delete", EmptyRec)
                          THEN [_tables["t"][i] EXCEPT !["deleted_at"] = Iso(now)]
                          ELSE _tables["t"][i]]
                  ELSE FilterAt(_tables["t"],
                                (1..Len(_tables["t"])) \ Unvetoed("delete", EmptyRec), 1)]_vars

\* An update of all three records under the vetoing trigger has changed the
\* two records priced 1 and left the record priced 2 alone
C24_Witness ==
    /\ ret.op = "update"
    /\ ret.status = "ok"
    /\ ret.q.where = <<>>
    /\ Registered = <<[name |-> "g", fn |-> VetoChange]>>
    /\ Len(_tables["t"]) = 3
    /\ \A i \in 1..3 :
          _tables["t"][i]["created_at"] = IF _tables["t"][i]["price"] = Num(2) THEN Undef
                                          ELSE Iso(0)

\* ---- the orWhere machine: where('price', 1).orWhere('name', 'a') and the
\* like on a table of three records, with or without an index on price
NextOr ==
    \/ CreateTable("t", <<>>)
    \/ CreateIndex("t", "price")
    \/ \E data \in VetoData : Fresh(data) /\ Insert("t", data)
    \/ \E price \in {Num(1), Num(2)} : Where("price", price)
    \/ OrWhere("name", Str(<<"a">>))
    \/ Get("t")

SpecOr == Init /\ [][NextOr]_vars

IndexCall(op, args, rows) ==
    /\ ret' = [Ok(op, "") EXCEPT !.args = args, !.rows = rows]
    /\ UNCHANGED <<store, builder, config, writer, backup, now, generated, pending>>

\* treeIndex.insert(key, value)
IndexInsert(key, value) ==
    /\ Len(inserted) < MaxInserted
    /\ treeIndex' = BTInsert(treeIndex, key, value, TreeDegree)
    /\ inserted' = Append(inserted, [key |-> key, value |-> value])
    /\ IndexCall("BTreeIndex.insert", <<key>>, <<>>)

\* treeIndex.search(key)
IndexSearch(key) ==
    /\ IndexCall("BTreeIndex.search", <<key>>, BTSearch(treeIndex, key))
    /\ UNCHANGED btree

\* treeIndex.searchRange(minKey, maxKey)
IndexSearchRange(minKey, maxKey) ==
    /\ IndexCall("BTreeIndex.searchRange", <<minKey, maxKey>>,
                 BTSearchRange(treeIndex, ValBound(minKey), ValBound(maxKey)))
    /\ UNCHANGED btree

NextTree ==
    \/ \E k \in 1..MaxKey : IndexInsert(Num(k), Rec(Num(Len(inserted) + 1), Num(k)))
    \/ \E k \in 1..MaxKey : IndexSearch(Num(k))
    \/ \E lo, hi \in 1..MaxKey : lo <= hi /\ IndexSearchRange(Num(lo), Num(hi))

SpecTree == Init /\ [][NextTree]_vars

\* The values inserted under a key between lo and hi, in insertion order
Under(lo, hi) ==
    LET kept == SelectSeq(inserted, LAMBDA pair : lo.n <= pair.key.n /\ pair.key.n <= hi.n)
    IN  [i \in 1..Len(kept) |-> kept[i].value]

\* C26: for any sequence of BTreeIndex.insert(key, record) calls, with more
\* distinct keys than the node degree too, search(k) returns exactly the
\* records inserted under key k, duplicates accumulated and none lost, and
\* the empty sequence for a key never inserted.
C26_SearchExact ==
    ret.op = "BTreeIndex.search" => ret.rows = Under(ret.args[1], ret.args[1])

\* C27: for any sequence of BTreeIndex inserts, searchRange(min, max) returns
\* exactly the records whose key k satisfies min <= k <= max, none missing
\* and none extra, however many node splits have occurred.
C27_RangeExact ==
    ret.op = "BTreeIndex.searchRange"
        => LET expected == Under(ret.args[1], ret.args[2])
           IN  /\ Len(ret.rows) = Len(expected)
               /\ {ret.rows[i] : i \in 1..Len(ret.rows)}
                    = {expected[i] : i \in 1..Len(expected)}

\* ------------------------------------------------ a further claim on SpecSchema

\* C28: for a schema field with a numeric min (respectively max) bound, a
\* bound equal to 0 included, validation fails for every numeric field value
\* below min (respectively above max) and the bound check passes for every
\* other numeric value.
C28_Bounds ==
    [][(ret'.op = "insert" /\ HasTable)
          => \A i \in DOMAIN SchemaOf("t") :
                LET rules == SchemaOf("t")[i].rules
                    v == Prepared(ret'.args[1], generated)[SchemaOf("t")[i].field]
                    below == rules.min.t = "number" /\ v.n < rules.min.n
                    above == rules.max.t = "number" /\ v.n > rules.max.n
                IN  v.t = "number"
                      => /\ below => (ret'.status = "throw" /\ ret'.error = "min")
                         /\ (~below /\ above) => (ret'.status = "throw" /\ ret'.error = "max")
                         /\ (~below /\ ~above) => ret'.error \notin {"min", "max"}]_vars

\* ---- the batch machine: bulkInsert as the event loop runs it.  The call
\* slices dataArray into batches, processes the first batch at once and
\* suspends (await, then setTimeout 0); each later turn of the loop processes
\* the next batch, and the turn after the last batch resolves the promise.
\* Between two turns other tasks run: here get and count.  A batch of the
\* machine holds BatchRecords records, standing for the 1000 of the code.

\* for (i = 0; i < dataArray.length; i += size) batches.push(dataArray.slice(i, i + size))
RECURSIVE Batches(_, _)
Batches(dataArray, size) ==
    IF dataArray = <<>> THEN <<>>
    ELSE IF Len(dataArray) <= size THEN <<dataArray>>
    ELSE <<SubSeq(dataArray, 1, size)>>
            \o Batches(SubSeq(dataArray, size + 1, Len(dataArray)), size)

\* await this._processBatch(tableName, batch) for one batch of a call that
\* found `entry` records in the table and brings `total`; `rest` are the
\* batches after it
ProcessBatch(tableName, batch, rest, entry, total) ==
    LET processed == ProcessRecords(batch, SchemaOf(tableName), generated, <<>>)
    IN  /\ generated' = processed.gen
        /\ IF processed.error # NoError
           THEN /\ ret' = Throw("bulkInsert", tableName, processed.error.rule)
                /\ pending' = NoPending
                /\ UNCHANGED store
           ELSE IF tableName \notin DOMAIN _tables
           THEN /\ ret' = Throw("bulkInsert", tableName, "TypeError")
                /\ pending' = NoPending
                /\ UNCHANGED store
           ELSE /\ Len(_tables[tableName]) + Len(batch) <= MaxRows
                /\ IndexLoad(tableName) + Len(batch) <= MaxIndexed
                /\ _tables' = [_tables EXCEPT ![tableName] = @ \o processed.records]
                /\ _indexes' =
                      IF tableName \in DOMAIN _indexes /\ _performanceEnabled
                      THEN [_indexes EXCEPT ![tableName] =
                              [f \in DOMAIN @ |-> BatchIndexed(@[f], f, processed.records)]]
                      ELSE _indexes
                /\ pending' = [active |-> TRUE, table |-> tableName, batches |-> rest,
                               entry |-> entry, total |-> total]
                /\ ret' = Ret("bulkInsert", tableName, "pending", "")
                /\ UNCHANGED <<_schemas, _triggers, _lastInsertId>>
        /\ UNCHANGED <<builder, config, writer, backup, now, btree>>

\* bulkInsert(tableName, dataArray), up to its first suspension
BulkInsertBegin(tableName, dataArray) ==
    /\ ~pending.active
    /\ dataArray # <<>>
    /\ generated + NeedIds(dataArray) <= MaxGen
    /\ LET batches == Batches(dataArray, BatchRecords)
       IN  ProcessBatch(tableName, Head(batches), Tail(batches),
                        IF tableName \in DOMAIN _tables THEN Len(_tables[tableName]) ELSE 0,
                        Len(dataArray))

\* The suspended bulkInsert goes on: the next batch, or the return after the
\* last one
BulkInsertResume ==
    /\ pending.active
    /\ IF pending.batches = <<>>
       THEN /\ ret' = Ok("bulkInsert", pending.table)
            /\ pending' = NoPending
            /\ UNCHANGED <<store, builder, config, writer, backup, now, generated, btree>>
       ELSE ProcessBatch(pending.table, Head(pending.batches), Tail(pending.batches),
                         pending.entry, pending.total)

NextBatch ==
    \/ \E schema \in {<<>>, PriceSchema} : CreateTable("t", schema)
    \/ \E dataArray \in SeqUpTo(BulkData, MaxBulk) : BulkInsertBegin("t", dataArray)
    \/ BulkInsertResume
    \/ Get("t")
    \/ Count("t")

SpecBatch == Init /\ [][NextBatch]_vars

\* C29: no mutation suspends part-way: under any interleaving of tasks on the
\* event loop, no get or count issued by another task observes a table that
\* contains some but not all of the records of a single bulkInsert call.
C29_WholeBulk ==
    (pending.active /\ ret.op \in {"get", "count"} /\ ret.status = "ok")
        => LET observed == IF ret.op = "get" THEN Len(ret.rows) ELSE ret.value.n
           IN  observed - pending.entry \in {0, pending.total}

\* ---- the id machine: insert and bulkInsert of records with the numeric ids
\* 0, 1 and 2 into a table without a schema or with the schema
\* { id: { type: 'number', required: true } } of performance-test.js
IdSchema == Rule("id", [NoRules EXCEPT !.type = "number", !.required = TRUE])

IdData == {Rec(Num(k), Num(1)) : k \in 0..2}

NextIds ==
    \/ \E schema \in {<<>>, IdSchema} : CreateTable("t", schema)
    \/ \E data \in IdData : Insert("t", data)
    \/ \E dataArray \in SeqUpTo(IdData, MaxBulk) : BulkInsert("t", dataArray)

SpecIds == Init /\ [][NextIds]_vars

\* C30: a record that satisfies every rule of the table's schema as supplied
\* is accepted by insert and bulkInsert and stored with its supplied id
\* unchanged; records with numeric ids starting at 0 are accepted under a
\* schema declaring id as a required number.
C30_StoredAsSupplied ==
    [][(/\ ret'.op \in {"insert", "bulkInsert"}
        /\ HasTable
        /\ ret'.args # <<>>
        /\ \A i \in 1..Len(ret'.args) :
              /\ ret'.args[i]["id"] \notin {Undef, Null}
              /\ ~Violating(ret'.args[i], SchemaOf("t")))
          => /\ ret'.status = "ok"
             /\ _tables'["t"] = _tables["t"] \o ret'.args]_vars

\* ---- the limit machine: soft delete on, a table of three records of
\* different prices, some of them deleted one by one, read with limit(n)
\* with or without a condition on the price, which has no index
LimitRows == <<Rec(Num(1), Num(1)), Rec(Num(2), Num(2)), Rec(Num(3), Num(3))>>

NextLimit ==
    \/ SetTable("t", LimitRows, <<>>)
    \/ \E price \in {Num(1), Num(2)} : Where("price", price)
    \/ WhereOperator("price", ">=", Num(1))
    \/ Delete("t")
    \/ \E n \in 1..2 : Limit(n, 0)
    \/ Get("t")

SpecLimit == InitQuery /\ [][NextLimit]_vars

\* C31: with softDelete enabled, soft-deleted records are excluded before the
\* offset/limit slicing: limit(n).get(t) returns the first n active matching
\* records whenever at least n active matching records exist.
C31_ActiveFirst ==
    (ret.op = "get" /\ ret.status = "ok" /\ ret.q.limit # Null /\ ret.q.offset = 0)
        => LET active == Active(Filtered(_tables["t"], ret.q))
               n == ret.q.limit.n
           IN  Len(active) >= n => BareSeq(ret.rows) = BareSeq(SubSeq(active, 1, n))

\* ---- the failing-terminal machine: conditions accumulated before a get or a
\* count of a table that does not exist ("u"), or before an update whose data
\* violates the schema of "t" (price above max 1), and the get that follows
FailRows == <<Rec(Num(1), Num(1)), Rec(Num(2), Num(0))>>

NextFail ==
    \/ SetTable("t", FailRows, PriceSchema)
    \/ \E price \in {Num(0), Num(1)} : Where("price", price)
    \/ Get("u")
    \/ Count("u")
    \/ \E price \in {Num(1), Num(2)} : Update("t", Patch(price))
    \/ Get("t")
    \/ Delete("t")

SpecFail == InitQuery /\ [][NextFail]_vars

\* A get, a count or an update has just thrown
FailedTerminal ==
    /\ ret.op \in {"get", "count", "update"}
    /\ ret.status = "throw"

\* C32: a get of the table called right after a get or a count of a missing
\* table has thrown, or after an update has thrown a validation error, with no
\* builder call in between, returns every active record of the table.
C32_ClearedOnFailure ==
    [][(FailedTerminal /\ HasTable /\ ret'.op = "get" /\ ret'.table = "t"
        /\ ret'.status = "ok")
          => BareSeq(ret'.rows) = BareSeq(Active(_tables["t"]))]_vars

\* ---- the indexed batch machine: bulkInsert in batches into a table with the
\* automatic index on id and a created index on price, with and without
\* { performance: false }
InitBatch ==
    /\ Constructed
    /\ NewIndex
    /\ NewQueue
    /\ _softDelete = FALSE
    /\ _timestamps = FALSE
    /\ _performanceEnabled \in BOOLEAN
    /\ _autoIndex = TRUE

NextBatchIndex ==
    \/ CreateTable("t", <<>>)
    \/ CreateIndex("t", "price")
    \/ \E dataArray \in SeqUpTo(BulkData, MaxBulk) : BulkInsertBegin("t", dataArray)
    \/ BulkInsertResume
    \/ Count("t")

SpecBatchIndex == InitBatch /\ [][NextBatchIndex]_vars

\* The records stored under the keys of a node and of the nodes below it
RECURSIVE NodeRecords(_)
NodeRecords(node) ==
    UNION {{node.values[i][j] : j \in 1..Len(node.values[i])} : i \in 1..Len(node.values)}
        \cup UNION {NodeRecords(node.children[i]) : i \in 1..Len(node.children)}

IndexRecords(index) == IF index.root = <<>> THEN {} ELSE NodeRecords(index.root[1])

\* The records the suspended bulkInsert has appended to its table so far
Appended ==
    LET table == _tables[pending.table]
    IN  {table[i] : i \in (pending.entry + 1)..Len(table)}

\* Every index of the table holds every appended record that has a value in
\* the indexed field (an index built by createIndex holds copies that carry
\* _rowIndex)
AppendedIndexed ==
    pending.table \in DOMAIN _indexes =>
        \A f \in DOMAIN _indexes[pending.table] :
            \A r \in Appended :
                r[f] \notin {Undef, Null}
                    => Bare(r) \in {Bare(v) : v \in IndexRecords(_indexes[pending.table][f])}

\* C33 as stated: wherever bulkInsert is suspended between two batches, each
\* index of the table holds every record of this call that is in the table.
C33_IndexedAtYield ==
    (pending.active /\ pending.table \in DOMAIN _tables) => AppendedIndexed

\* C33, amended: the same, for a database that was not constructed with
\* { performance: false }.
C33_IndexedAtYieldEnabled ==
    (pending.active /\ pending.table \in DOMAIN _tables /\ _performanceEnabled)
        => AppendedIndexed

\* bulkInsert is suspended after a batch that went into the table and into the
\* indexes on id and price, with a batch still to come
C33_Witness ==
    /\ pending.active
    /\ pending.batches # <<>>
    /\ _performanceEnabled
    /\ Appended # {}
    /\ "t" \in DOMAIN _indexes
    /\ {"id", "price"} \subseteq DOMAIN _indexes["t"]
    /\ AppendedIndexed

\* ------------------------------------------------------------ write queue
\* _queueWrite and _processWriteQueue of the storage class.  An operation is
\* [kind, state, promise, waited]: kind "async" for a function that returns a
\* promise and "throws" for one that throws when called; state "queued",
\* "running", "done" or "failed"; promise, the one _queueWrite returned,
\* "pending", "resolved" or "rejected"; waited, whether it was pushed while
\* _isWriting.
MaxOps == 4

Kinds == {"async", "throws"}

Writer == [queue |-> _writeQueue, isWriting |-> _isWriting, lastError |-> _lastError,
           ops |-> operations, order |-> startOrder]

\* A _processWriteQueue that only looks at the length of the queue
BusyWhenEmpty(w) == w.queue = <<>>

\* this._isWriting || this._writeQueue.length === 0
Busy(w) == w.isWriting \/ w.queue = <<>>

\* A queue that gives out its newest entry
ShiftNewest(queue) ==
    [item |-> queue[Len(queue)], rest |-> SubSeq(queue, 1, Len(queue) - 1)]

\* this._writeQueue.shift()
Shift(queue) == [item |-> Head(queue), rest |-> Tail(queue)]

\* The while loop of _processWriteQueue, from its test to the next await or to
\* its end: an operation that throws when called is rejected on the spot
RECURSIVE WriteLoop(_)
WriteLoop(w) ==
    IF w.queue = <<>> THEN [w EXCEPT !.isWriting = FALSE]
    ELSE LET h == Shift(w.queue).item
             shifted == [w EXCEPT !.queue = Shift(w.queue).rest, !.order = Append(@, h)]
         IN  IF w.ops[h].kind = "throws"
             THEN WriteLoop([shifted EXCEPT !.ops[h].state = "failed",
                                            !.ops[h].promise = "rejected",
                                            !.lastError = Num(h)])
             ELSE [shifted EXCEPT !.ops[h].state = "running"]

\* _processWriteQueue(), up to its first await or its return
_processWriteQueue(w) ==
    IF Busy(w) THEN w ELSE WriteLoop([w EXCEPT !.isWriting = TRUE])

WriterBecomes(w) ==
    /\ _writeQueue' = w.queue
    /\ _isWriting' = w.isWriting
    /\ _lastError' = w.lastError
    /\ operations' = w.ops
    /\ startOrder' = w.order
    /\ UNCHANGED <<store, builder, config, backup, now, generated, ret, pending, btree>>

\* _queueWrite(operation)
QueueWrite(kind) ==
    /\ Len(operations) < MaxOps
    /\ LET h == Len(operations) + 1
           operation == [kind |-> kind, state |-> "queued", promise |-> "pending",
                         waited |-> _isWriting]
       IN  WriterBecomes(_processWriteQueue(
               [Writer EXCEPT !.queue = Append(@, h), !.ops = Append(@, operation)]))

\* The promise of the running operation settles
OperationSettles(state) ==
    \E h \in DOMAIN operations :
        /\ operations[h].state = "running"
        /\ operations' = [operations EXCEPT ![h].state = state]
        /\ UNCHANGED <<_writeQueue, _isWriting, _lastError, startOrder>>
        /\ UNCHANGED <<store, builder, config, backup, now, generated, ret, pending, btree>>

\* A _processWriteQueue that returns after the operation it awaited
ProcessResumeOnce ==
    \E h \in DOMAIN operations :
        /\ operations[h].state \in {"done", "failed"}
        /\ operations[h].promise = "pending"
        /\ WriterBecomes([Writer EXCEPT !.ops[h].promise = "resolved"])

\* _processWriteQueue goes on after await operation(): resolve or reject, then
\* the loop
ProcessResume ==
    \E h \in DOMAIN operations :
        /\ operations[h].state \in {"done", "failed"}
        /\ operations[h].promise = "pending"
        /\ WriterBecomes(WriteLoop(
               IF operations[h].state = "done"
               THEN [Writer EXCEPT !.ops[h].promise = "resolved"]
               ELSE [Writer EXCEPT !.ops[h].promise = "rejected", !.lastError = Num(h)]))

NextQueue ==
    \/ \E kind \in Kinds : QueueWrite(kind)
    \/ \E state \in {"done", "failed"} : OperationSettles(state)
    \/ ProcessResume

SpecQueue == Init /\ [][NextQueue]_vars

\* The queue under an event loop that runs every continuation that is ready,
\* with operations that terminate
SpecQueueFair ==
    /\ SpecQueue
    /\ WF_vars(\E state \in {"done", "failed"} : OperationSettles(state))
    /\ WF_vars(ProcessResume)

Started == {startOrder[i] : i \in 1..Len(startOrder)}
Settled == {h \in DOMAIN operations : operations[h].state \in {"done", "failed"}}
Executing == {h \in DOMAIN operations : operations[h].state = "running"}

\* C34: at most one queued operation is executing at any time, and every
\* started operation but the one started last has settled.
C34_SingleFlight ==
    /\ Cardinality(Executing) <= 1
    /\ \A i \in 1..(Len(startOrder) - 1) : startOrder[i] \in Settled

\* An operation pushed while another was executing is executing now
C34_Witness ==
    \E h \in Executing : operations[h].waited /\ Len(startOrder) >= 2

\* C35: the operations are started in the order in which they were passed to
\* _queueWrite.
C35_Fifo ==
    startOrder = [i \in 1..Len(startOrder) |-> i]

\* Two operations were pushed while the first was executing, and all three
\* have been started
C35_Witness ==
    /\ Len(startOrder) >= 3
    /\ operations[1].kind = "async"
    /\ operations[2].waited
    /\ operations[3].waited
    /\ _writeQueue = <<>>

\* Nothing is queued, executing or awaited
Idle ==
    /\ _writeQueue = <<>>
    /\ \A h \in DOMAIN operations : operations[h].promise # "pending"

\* C36: under an event loop that runs what is ready and with operations that
\* terminate, every operation passed to _queueWrite is started and its promise
\* settled, after a rejected operation too; _isWriting is false whenever the
\* queue is empty and nothing runs.
C36_AllSettle ==
    /\ \A h \in 1..MaxOps :
          (h \in DOMAIN operations)
              ~> (h \in Started /\ operations[h].promise # "pending")
    /\ [](Idle => ~_isWriting)

\* An operation pushed behind one that was rejected has been started and its
\* promise resolved, and the queue is idle again
C36_Witness ==
    /\ Idle
    /\ ~_isWriting
    /\ \E h \in DOMAIN operations :
          /\ h > 1
          /\ operations[h - 1].promise = "rejected"
          /\ operations[h].waited
          /\ operations[h].promise = "resolved"

\* ---- the re-entrant machine: update and delete under a trigger whose
\* callback counts the records of the table, db.count('t'), on every update or
\* delete it is called for
Counting ==
    [on |-> {"update", "delete"}, price |-> Undef, throws |-> FALSE, returns |-> Undef,
     queries |-> TRUE]

ReentrantRows == <<Rec(Num(1), Num(1)), Rec(Num(2), Num(2)), Rec(Num(3), Num(1))>>

NextReentrant ==
    \/ SetTable("t", ReentrantRows, <<>>)
    \/ CreateTrigger("t", "g", Counting)
    \/ DropTrigger("t", "g")
    \/ \E price \in {Num(1), Num(2)} : Where("price", price)
    \/ Update("t", Patch(Num(3)))
    \/ Delete("t")

SpecReentrant == InitDelete /\ [][NextReentrant]_vars

\* The record at position idx of table t met every condition accumulated
\* before the call
Matched(idx) == StrictlyHold(_tables["t"][idx])

\* C37: an update or a delete leaves every record that does not meet the
\* conditions accumulated before the call as it was, also when a trigger
\* callback runs a terminal query during the operation.
C37_FixedSelection ==
    [][(HasTable /\ ret'.op \in {"update", "delete"} /\ ret'.status = "ok")
          => \A idx \in 1..Len(_tables["t"]) :
                ~Matched(idx)
                    => \E k \in 1..Len(_tables'["t"]) : _tables'["t"][k] = _tables["t"][idx]]_vars

\* ---- the filtered paging machine: paginate after where, soft delete off
FilteredPageRows == <<Rec(Num(1), Num(2)), Rec(Num(2), Num(1)), Rec(Num(3), Num(1))>>

NextPageWhere ==
    \/ SetTable("t", FilteredPageRows, <<>>)
    \/ \E price \in {Num(1), Num(2)} : Where("price", price)
    \/ \E id \in {Num(1), Num(3)} : Where("id", id)
    \/ \E page \in 1..2, perPage \in 1..2 : Paginate("t", page, perPage)

SpecPageWhere == Init /\ [][NextPageWhere]_vars

\* C38: the data paginate returns after where-conditions is the page slice of
\* the records that meet them, the same records pagination.total counts.
C38_PageOfFiltered ==
    (ret.op = "paginate" /\ ret.status = "ok" /\ ret.q.where # <<>>)
        => LET filtered == Filtered(_tables["t"], ret.q)
               perPage == ret.result.perPage
               offset == (ret.result.currentPage - 1) * perPage
           IN  /\ ret.result.total = Len(filtered)
               /\ BareSeq(ret.rows)
                    = BareSeq(SubSeq(filtered, offset + 1, Least(offset + perPage, Len(filtered))))

\* ---- the deleted-record machine: update and delete, with soft delete on, of
\* a table some of whose records are already soft-deleted, under a trigger and
\* a clock that moves
GoneRows == <<Rec(Num(1), Num(1)), Rec(Num(2), Num(2))>>

NextGone ==
    \/ SetTable("t", GoneRows, <<>>)
    \/ CreateTrigger("t", "g", VetoChange)
    \/ Where("price", Num(1))
    \/ Delete("t")
    \/ Update("t", Patch(Num(3)))
    \/ Tick

SpecGone == InitQuery /\ [][NextGone]_vars

\* C39: with softDelete on, an update or a delete leaves every record that
\* carries deleted_at as it was.
C39_DeletedUntouched ==
    [][(HasTable /\ ret'.op \in {"update", "delete"} /\ ret'.status = "ok")
          => \A idx \in Deleted(_tables["t"]) : _tables'["t"][idx] = _tables["t"][idx]]_vars

\* ---- the shape of the tree of the tree machine
RECURSIVE NodesOf(_)
NodesOf(node) ==
    {node} \cup UNION {NodesOf(node.children[i]) : i \in 1..Len(node.children)}

TreeNodes == IF treeIndex.root = <<>> THEN {} ELSE NodesOf(treeIndex.root[1])

\* C40: after any sequence of inserts every node of the tree, leaf or internal,
\* holds at most `degree` keys, and its keys are in strictly increasing order.
C40_NodesBounded ==
    \A node \in TreeNodes :
        /\ Len(node.keys) <= TreeDegree
        /\ \A i \in 1..(Len(node.keys) - 1) : JsLt(node.keys[i], node.keys[i + 1])

\* The keys of every node are in strictly increasing order
KeysIncrease ==
    \A node \in TreeNodes :
        \A i \in 1..(Len(node.keys) - 1) : JsLt(node.keys[i], node.keys[i + 1])

\* Every leaf holds at most `degree` keys
LeavesBounded ==
    \A node \in TreeNodes : node.isLeaf => Len(node.keys) <= TreeDegree


====
